---- MODULE Spec2Model ----
(***************************************************************************)
(* FinGestao backend (backend/server.py): the authentication and session   *)
(* lifecycle.  Requests are served concurrently by an asyncio event loop:  *)
(* the code between two awaited storage calls runs atomically, so every    *)
(* action below is one such segment of a handler, ending in the storage    *)
(* call it awaits.  Time is counted in minutes.                            *)
(***************************************************************************)
EXTENDS Integers, Sequences, FiniteSets, TLC

(* ------------------------------ bounds -------------------------------- *)

\* requests that change the state in one run of the session specification
MaxRequests == 3
\* requests that change the state in one run of the rate limiter's specification
MaxRateRequests == 6
\* clock advances in one run
MaxAdvances == 1
\* requests of a ledger specification that write or take more than one step
MaxLedgerRequests == 3
\* the same in the specification of ownership
MaxOwnerRequests == 2
\* the same in the specification of concurrent category requests
MaxCategoryRequests == 2
\* report requests in one run of the specification of the reports
MaxReportRequests == 1
\* transactions user A has made when the specification of the reports starts
MaxReportTransactions == 2
\* requests that write or take more than one step in the specification of goals
MaxGoalRequests == 3
MaxMonthRequests == 2
MaxMonthTransactions == 8

(* ------------------------- program constants -------------------------- *)

ACCESS_TOKEN_EXPIRE_MINUTES == 15
REFRESH_TOKEN_EXPIRE_DAYS == 7
RATE_LIMIT_WINDOW_MINUTES == 15
RATE_LIMIT_MAX_ATTEMPTS == 5

MinutesPerDay == 24 * 60

(* --------------------------- input domains ---------------------------- *)

\* the requests in flight at one time
Procs == {1, 2}

\* the request slot of the specifications that serve one request at a time
Serial == {1}

\* e-mail addresses as typed by clients: sequences of characters.
\* The session specifications follow one account ...
SessionEmails == {<<"A">>}
\* ... and the rate limiter's one account, typed in either case, and an
\* address nobody registers
RateAccounts == {<<"A">>}
RateEmails == {<<"A">>, <<"a">>, <<"b">>}
RegisterPasswords == {"Secret1a"}
LoginPasswords == {"Secret1a", "Wrong2b"}
ThemeInputs == {"light"}

\* how far the clock moves in one advance, in minutes: past the life of an
\* access token and past the life of a refresh token
SessionSteps == {20, REFRESH_TOKEN_EXPIRE_DAYS * MinutesPerDay}
\* ... and around the rate limiter's window
RateSteps == {14, 15, 20}

(* ------------------------------ values -------------------------------- *)

NoToken == [type |-> "none", sub |-> 0, exp |-> 0, jti |-> 0]
\* a string that is no JWT signed with JWT_SECRET
GarbageToken == [type |-> "garbage", sub |-> 0, exp |-> 0, jti |-> 0]
NoUser == [id |-> 0, email |-> <<>>, password |-> <<"none", "">>, theme |-> "none"]
NoArg == [email |-> <<>>, password |-> "", bearer |-> NoToken, token |-> NoToken,
          theme |-> "none"]
NoLoc == [uid |-> 0, user |-> NoUser]
NoEntry == <<0, 0>>
NoPre == [refreshed |-> FALSE, revoked |-> FALSE, superseded |-> FALSE,
          fresh |-> FALSE, origin |-> "none", authed |-> FALSE,
          limited |-> FALSE, valid |-> FALSE]
NoSent == [op |-> "none", arg |-> NoArg, status |-> 0, access |-> NoToken,
           refresh |-> NoToken, pre |-> NoPre, entry |-> NoEntry, repeat |-> FALSE]

DEFAULT_CATEGORIES ==
    << [name |-> "Alimentacao", type |-> "EXPENSE"],
       [name |-> "Transporte", type |-> "EXPENSE"],
       [name |-> "Moradia", type |-> "EXPENSE"],
       [name |-> "Saude", type |-> "EXPENSE"],
       [name |-> "Educacao", type |-> "EXPENSE"],
       [name |-> "Lazer", type |-> "EXPENSE"],
       [name |-> "Assinaturas", type |-> "EXPENSE"],
       [name |-> "Investimentos", type |-> "BOTH"],
       [name |-> "Salario", type |-> "INCOME"],
       [name |-> "Freelance", type |-> "INCOME"],
       [name |-> "Outros", type |-> "BOTH"] >>

VARIABLES
    users,           \* db.users: set of user documents
    categories,      \* db.categories: set of category documents
    refresh_tokens,  \* db.refresh_tokens: set of RefreshToken documents
    login_attempts,  \* the in-process map email -> (attempts, last_attempt)
    now,             \* the wall clock, minutes
    advances,        \* how often the clock has been advanced
    nextJti,         \* the next unused uuid4 of a refresh token
    nextUid,         \* the next unused uuid4 of a user
    requests,        \* how many requests have suspended or changed what is stored
    pc,              \* per request slot: where its handler is suspended
    op,              \* per request slot: the endpoint being served
    arg,             \* per request slot: the request's inputs
    loc,             \* per request slot: the handler's local variables
    pre,             \* per request slot: what held when the request arrived
    sent,            \* the response the latest step sent, NoSent if it sent none
    issued,          \* the tokens sent to clients so far, each with the endpoint
                     \* that sent it
    refreshed,       \* refresh tokens a refresh has answered 200 for
    revoked,         \* refresh tokens a logout has been answered for
    superseded       \* refresh tokens sent to a user before a later login of the user

dbVars == <<users, categories, refresh_tokens>>
idVars == <<nextJti, nextUid>>
envVars == <<now, advances, requests>>
procVars == <<pc, op, arg, loc, pre>>
histVars == <<issued, refreshed, revoked, superseded>>

VARIABLES
    transactions,    \* db.transactions: set of transaction documents
    goals,           \* db.goals: set of goal documents
    nextId,          \* the next unused uuid4 of a category, transaction or goal
    today,           \* datetime.now(BRAZIL_TZ): <<year, month, day>>
    req,             \* per request slot: the inputs of a ledger request
    frame,           \* per request slot: the local variables of a ledger handler
    was,             \* per request slot: what held when the ledger request arrived
    out              \* the response the latest ledger step sent, NoOut if none

ledgerDb == <<categories, transactions, goals>>
ledgerProc == <<req, frame, was>>
ledgerVars == <<transactions, goals, nextId, today, ledgerProc, out>>
\* what the ledger's handlers leave alone
sessionVars == <<users, refresh_tokens, login_attempts, now, advances, idVars,
                 arg, loc, pre, sent, histVars>>
vars == <<dbVars, login_attempts, envVars, idVars, procVars, sent, histVars,
          ledgerVars>>

(* ------------------------------ calendar ------------------------------ *)

\* A datetime string as isoformat() writes it is modelled as <<year, month, day,
\* i>>, i the index of the text after the date in TimeTails.  TimeTails is in
\* the order of string comparison, so comparing the tuples left to right is
\* comparing the strings.  The first entry is a string that holds a date only.
TimeTails ==
    << "", "T00:00:00", "T00:00:00+00:00", "T00:00:00-03:00", "T12:00:00-03:00",
       "T12:00:00.123456-03:00", "T23:59:59", "T23:59:59-03:00",
       "T23:59:59.500000-03:00" >>

TailOf(text) == CHOOSE i \in DOMAIN TimeTails : TimeTails[i] = text

\* seconds after midnight (whole seconds), whether the string holds a UTC
\* offset, and the offset in seconds
TailSeconds ==
    << 0, 0, 0, 0, 12 * 3600, 12 * 3600, 24 * 3600 - 1, 24 * 3600 - 1,
       24 * 3600 - 1 >>
TailAware ==
    << FALSE, FALSE, TRUE, TRUE, TRUE, TRUE, FALSE, TRUE, TRUE >>
TailOffset ==
    << 0, 0, 0, 0 - 3 * 3600, 0 - 3 * 3600, 0 - 3 * 3600, 0, 0 - 3 * 3600,
       0 - 3 * 3600 >>

NoDate == <<0, 0, 0, 1>>
\* bounds for a query on "date" that has no $gte or no $lte
MinDate == <<0, 0, 0, 1>>
MaxDate == <<9999, 12, 31, Len(TimeTails)>>

\* a <= b for strings (the $gte/$lte of a query on "date", and Python's <=)
DateLeq(a, b) ==
    \/ a[1] < b[1]
    \/ a[1] = b[1] /\ a[2] < b[2]
    \/ a[1] = b[1] /\ a[2] = b[2] /\ a[3] < b[3]
    \/ a[1] = b[1] /\ a[2] = b[2] /\ a[3] = b[3] /\ a[4] <= b[4]

InRange(date, lo, hi) == DateLeq(lo, date) /\ DateLeq(date, hi)

IsLeap(y) == (y % 4 = 0 /\ y % 100 # 0) \/ y % 400 = 0

DaysInMonth(y, m) ==
    IF m = 2 THEN (IF IsLeap(y) THEN 29 ELSE 28)
    ELSE IF m \in {4, 6, 9, 11} THEN 30 ELSE 31

\* datetime(y, m, 1, tzinfo=BRAZIL_TZ).isoformat()
MonthStart(y, m) == <<y, m, 1, TailOf("T00:00:00-03:00")>>

\* (datetime(y, m + 1, 1, tzinfo=BRAZIL_TZ) - timedelta(seconds=1)).isoformat(),
\* with the year carried after December
MonthEnd(y, m) == <<y, m, DaysInMonth(y, m), TailOf("T23:59:59-03:00")>>

\* the day before <<y, m, d>>
PrevDay(day) ==
    IF day[3] > 1 THEN <<day[1], day[2], day[3] - 1>>
    ELSE IF day[2] > 1 THEN <<day[1], day[2] - 1, DaysInMonth(day[1], day[2] - 1)>>
    ELSE <<day[1] - 1, 12, 31>>

RECURSIVE DaysBefore(_, _)
\* day - timedelta(days=n)
DaysBefore(day, n) == IF n = 0 THEN day ELSE DaysBefore(PrevDay(day), n - 1)

RECURSIVE DaysBetween(_, _)
\* (hi - lo).days for two dates, lo not after hi
DaysBetween(lo, hi) ==
    IF lo = hi THEN 0 ELSE 1 + DaysBetween(lo, PrevDay(hi))

Day(date) == <<date[1], date[2], date[3]>>

(* ---------------------------- ledger values --------------------------- *)

\* ids are uuid4 strings: <<user, i>> for the i-th default category of a user,
\* <<0, n>> for the n-th id made by a ledger handler.  NoId is no id (None).
NoId == <<0, 0>>
NoCategory == [id |-> NoId, user_id |-> 0, name |-> "", type |-> "none"]
NoTransaction ==
    [id |-> NoId, user_id |-> 0, type |-> "none", amount |-> 0, date |-> NoDate,
     category_id |-> NoId, deleted |-> FALSE]
NoGoal == [id |-> NoId, user_id |-> 0, target_amount |-> 0, current_amount |-> 0]

\* the inputs of a ledger request; given holds the names of the optional
\* fields and query parameters the client has set
NoReq ==
    [bearer |-> NoToken, id |-> NoId, name |-> "", type |-> "none", amount |-> 0,
     date |-> NoDate, category_id |-> NoId, reassign_to |-> NoId,
     target_amount |-> 0, current_amount |-> 0,
     month |-> 0, year |-> 0, start_date |-> NoDate, end_date |-> NoDate,
     given |-> {}]

\* the local variables of a ledger handler
NoFrame ==
    [user_id |-> 0, category |-> NoCategory, transaction |-> NoTransaction,
     lo |-> NoDate, hi |-> NoDate, total |-> 0,
     all |-> {}, period |-> {}, prev |-> {}, recent |-> {}]

\* what held when a ledger request arrived
NoWas ==
    [user_id |-> 0, db |-> <<{}, {}, {}>>, deleted |-> FALSE, live |-> FALSE,
     referenced |-> FALSE, reassign_own |-> FALSE, foreign |-> FALSE,
     duplicate |-> FALSE]

NoBody == [docs |-> {}]
NoOut == [op |-> "none", req |-> NoReq, status |-> 0, body |-> NoBody,
          was |-> NoWas]

(* ------------------------- pure helper functions ----------------------- *)

LowerChar(c) ==
    CASE c = "A" -> "a"
      [] c = "B" -> "b"
      [] OTHER -> c

\* the string as it was typed
Lower_AsTyped(s) == s

\* str.lower()
Lower(s) == [i \in DOMAIN s |-> LowerChar(s[i])]

\* pwd_context.hash / pwd_context.verify
PwdHash(password) == <<"bcrypt", password>>
PwdVerify(password, hash) == hash = <<"bcrypt", password>>

create_access_token(user_id) ==
    [type |-> "access", sub |-> user_id,
     exp |-> now + ACCESS_TOKEN_EXPIRE_MINUTES, jti |-> 0]

create_refresh_token(user_id) ==
    [type |-> "refresh", sub |-> user_id,
     exp |-> now + REFRESH_TOKEN_EXPIRE_DAYS * MinutesPerDay, jti |-> nextJti]

\* jwt.decode: "invalid" (InvalidTokenError), "expired" (ExpiredSignatureError) or "ok"
JwtDecode(token) ==
    IF token.type \notin {"access", "refresh"} THEN "invalid"
    ELSE IF token.exp <= now THEN "expired"
    ELSE "ok"

(* ----------------------------- rate limiter ---------------------------- *)

\* check_rate_limit comparing with > where the code has >=
check_rate_limit_Above(email) ==
    IF email \in DOMAIN login_attempts
    THEN ~(now - login_attempts[email][2] < RATE_LIMIT_WINDOW_MINUTES
           /\ login_attempts[email][1] > RATE_LIMIT_MAX_ATTEMPTS)
    ELSE TRUE

\* check_rate_limit: TRUE when the attempt is allowed
check_rate_limit(email) ==
    IF email \in DOMAIN login_attempts
    THEN LET attempts == login_attempts[email][1]
             last_attempt == login_attempts[email][2]
         IN  ~(now - last_attempt < RATE_LIMIT_WINDOW_MINUTES
               /\ attempts >= RATE_LIMIT_MAX_ATTEMPTS)
    ELSE TRUE

\* record_login_attempt leaving the entry in place on success
record_login_attempt_Keep(email, success) ==
    IF success
    THEN login_attempts
    ELSE IF email \in DOMAIN login_attempts
         THEN [login_attempts EXCEPT ![email] = <<login_attempts[email][1] + 1, now>>]
         ELSE [e \in DOMAIN login_attempts \cup {email} |->
                  IF e = email THEN <<1, now>> ELSE login_attempts[e]]

\* record_login_attempt restarting the count when the window has passed
record_login_attempt_Restart(email, success) ==
    IF success
    THEN [e \in DOMAIN login_attempts \ {email} |-> login_attempts[e]]
    ELSE IF /\ email \in DOMAIN login_attempts
            /\ now - login_attempts[email][2] < RATE_LIMIT_WINDOW_MINUTES
         THEN [login_attempts EXCEPT ![email] = <<login_attempts[email][1] + 1, now>>]
         ELSE [e \in DOMAIN login_attempts \cup {email} |->
                  IF e = email THEN <<1, now>> ELSE login_attempts[e]]

\* record_login_attempt: the map after the call
record_login_attempt(email, success) ==
    IF success
    THEN [e \in DOMAIN login_attempts \ {email} |-> login_attempts[e]]
    ELSE IF email \in DOMAIN login_attempts
         THEN [login_attempts EXCEPT ![email] = <<login_attempts[email][1] + 1, now>>]
         ELSE [e \in DOMAIN login_attempts \cup {email} |->
                  IF e = email THEN <<1, now>> ELSE login_attempts[e]]

(* ------------------------------- storage ------------------------------- *)

\* db.users.find_one({"email": email})
FindUserByEmail(email) ==
    IF \E u \in users : u.email = email
    THEN CHOOSE u \in users : u.email = email
    ELSE NoUser

\* a lookup that finds no user
FindUserById_Missing(user_id) == NoUser

\* db.users.find_one({"id": user_id})
FindUserById(user_id) ==
    IF \E u \in users : u.id = user_id
    THEN CHOOSE u \in users : u.id = user_id
    ELSE NoUser

\* db.refresh_tokens.find_one({"token": token, "user_id": user_id}) finds a document
FindStoredToken(token, user_id) ==
    \E r \in refresh_tokens : r.token = token /\ r.user_id = user_id

\* delete_one that deletes nothing
DeleteOneToken_Nothing(token) == refresh_tokens

\* db.refresh_tokens.delete_one({"token": token}): the collection after the call
DeleteOneToken(token) ==
    IF \E r \in refresh_tokens : r.token = token
    THEN refresh_tokens \ {CHOOSE r \in refresh_tokens : r.token = token}
    ELSE refresh_tokens

\* db.refresh_tokens.insert_one({...}): the collection after the call
InsertToken(token, user_id) ==
    refresh_tokens \cup
        {[token |-> token, user_id |-> user_id,
          expires_at |-> now + REFRESH_TOKEN_EXPIRE_DAYS * MinutesPerDay]}

(* --------------------------- request plumbing -------------------------- *)

\* the limiter's entry of an e-mail, NoEntry if it has none
EntryOf(email) ==
    IF email \in DOMAIN login_attempts THEN login_attempts[email] ELSE NoEntry

\* the token is one a client was sent
Issued(token) == token \in DOMAIN issued

\* issued with tokens access_token and refresh_token sent by endpoint name
IssuedWith(name, access_token, refresh_token) ==
    [t \in DOMAIN issued \cup {access_token, refresh_token} |->
        IF t \in DOMAIN issued THEN issued[t] ELSE name]

\* what is true of a request's inputs when the request arrives
PreOf(a) ==
    [refreshed |-> a.token \in refreshed,
     revoked |-> a.token \in revoked,
     superseded |-> a.token \in superseded,
     fresh |-> /\ a.token.type = "refresh"
               /\ Issued(a.token)
               /\ a.token \notin refreshed
               /\ a.token \notin revoked
               /\ a.token.exp > now
               /\ \A q \in Procs :
                     pc[q] \in {"ref_delete", "ref_user", "ref_insert"}
                        => arg[q].token # a.token,
     origin |-> IF Issued(a.token) THEN issued[a.token] ELSE "none",
     authed |-> /\ a.bearer.type = "access"
                /\ Issued(a.bearer)
                /\ a.bearer.exp > now,
     limited |-> /\ EntryOf(Lower(a.email))[1] >= RATE_LIMIT_MAX_ATTEMPTS
                 /\ now - EntryOf(Lower(a.email))[2] < RATE_LIMIT_WINDOW_MINUTES,
     valid |-> \E u \in users : /\ u.email = Lower(a.email)
                                /\ u.password = PwdHash(a.password)]

\* a request arrives; the free slots are alike, so it takes the first
Arrives(p) ==
    /\ pc[p] = "idle"
    /\ \A q \in Procs : q < p => pc[q] # "idle"

\* the handler of slot p suspends at label l with locals l, serving op name of
\* request a that arrived in the state described by b
SuspendAt(p, label, name, a, l, b) ==
    /\ pc' = [pc EXCEPT ![p] = label]
    /\ op' = [op EXCEPT ![p] = name]
    /\ arg' = [arg EXCEPT ![p] = a]
    /\ loc' = [loc EXCEPT ![p] = l]
    /\ pre' = [pre EXCEPT ![p] = b]
    /\ sent' = NoSent

\* a suspended handler moves on to label l
Suspend(p, label, l) == SuspendAt(p, label, op[p], arg[p], l, pre[p])

\* the handler of slot p answers request a of op name and the slot is free again
Answer(p, name, a, b, status, access, refresh) ==
    /\ pc' = [pc EXCEPT ![p] = "idle"]
    /\ op' = [op EXCEPT ![p] = "none"]
    /\ arg' = [arg EXCEPT ![p] = NoArg]
    /\ loc' = [loc EXCEPT ![p] = NoLoc]
    /\ pre' = [pre EXCEPT ![p] = NoPre]
    /\ sent' = [op |-> name, arg |-> a, status |-> status,
                access |-> access, refresh |-> refresh, pre |-> b,
                entry |-> EntryOf(Lower(a.email)),
                repeat |-> a.token \in refreshed]

\* a suspended handler answers
Respond(p, status, access, refresh) ==
    Answer(p, op[p], arg[p], pre[p], status, access, refresh)

\* a handler answers in the step its request arrives in
Reply(p, name, a, status) ==
    Answer(p, name, a, PreOf(a), status, NoToken, NoToken)

Init ==
    /\ users = {}
    /\ categories = {}
    /\ refresh_tokens = {}
    /\ login_attempts = [e \in {} |-> <<0, 0>>]
    /\ now = 0
    /\ advances = 0
    /\ nextJti = 1
    /\ nextUid = 1
    /\ requests = 0
    /\ pc = [p \in Procs |-> "idle"]
    /\ op = [p \in Procs |-> "none"]
    /\ arg = [p \in Procs |-> NoArg]
    /\ loc = [p \in Procs |-> NoLoc]
    /\ sent = NoSent
    /\ pre = [p \in Procs |-> NoPre]
    /\ issued = [t \in {} |-> "none"]
    /\ refreshed = {}
    /\ revoked = {}
    /\ superseded = {}
    /\ transactions = {}
    /\ goals = {}
    /\ nextId = 1
    /\ today = <<2024, 6, 15>>
    /\ req = [p \in Procs |-> NoReq]
    /\ frame = [p \in Procs |-> NoFrame]
    /\ was = [p \in Procs |-> NoWas]
    /\ out = NoOut

(* ------------------------------- register ------------------------------ *)

Register(p, email, password) ==
    /\ Arrives(p)
    /\ LET a == [NoArg EXCEPT !.email = email, !.password = password]
       IN  IF FindUserByEmail(Lower(email)) # NoUser
           THEN /\ Reply(p, "register", a, 400)
                /\ UNCHANGED nextUid
           ELSE /\ SuspendAt(p, "reg_insert_user", "register", a,
                             [NoLoc EXCEPT !.uid = nextUid], PreOf(a))
                /\ nextUid' = nextUid + 1
    /\ UNCHANGED <<dbVars, login_attempts, nextJti, histVars>>

\* db.users.insert_one(user_doc); the collection has a unique index on email
RegisterInsertUser(p) ==
    /\ pc[p] = "reg_insert_user"
    /\ IF FindUserByEmail(Lower(arg[p].email)) # NoUser
       THEN /\ Respond(p, 500, NoToken, NoToken)
            /\ UNCHANGED users
       ELSE /\ users' = users \cup
                  {[id |-> loc[p].uid, email |-> Lower(arg[p].email),
                    password |-> PwdHash(arg[p].password), theme |-> "dark"]}
            /\ Suspend(p, "reg_categories", loc[p])
    /\ UNCHANGED <<categories, refresh_tokens, login_attempts, idVars,
                   histVars>>

\* create_default_categories
RegisterCategories(p) ==
    /\ pc[p] = "reg_categories"
    /\ categories' = categories \cup
          {[id |-> <<loc[p].uid, i>>, user_id |-> loc[p].uid,
            name |-> DEFAULT_CATEGORIES[i].name, type |-> DEFAULT_CATEGORIES[i].type] :
              i \in DOMAIN DEFAULT_CATEGORIES}
    /\ Suspend(p, "reg_token", loc[p])
    /\ UNCHANGED <<users, refresh_tokens, login_attempts, idVars,
                   histVars>>

RegisterToken(p) ==
    /\ pc[p] = "reg_token"
    /\ LET access_token == create_access_token(loc[p].uid)
           refresh_token == create_refresh_token(loc[p].uid)
       IN  /\ refresh_tokens' = InsertToken(refresh_token, loc[p].uid)
           /\ Respond(p, 200, access_token, refresh_token)
           /\ issued' = IssuedWith("register", access_token, refresh_token)
    /\ nextJti' = nextJti + 1
    /\ UNCHANGED <<users, categories, login_attempts, nextUid,
                   refreshed, revoked, superseded>>

(* -------------------------------- login -------------------------------- *)

\* a login that counts the attempt it refuses with 429
Login_CountsBlocked(p, email, password) ==
    /\ Arrives(p)
    /\ LET a == [NoArg EXCEPT !.email = email, !.password = password]
           e == Lower(email)
           user == FindUserByEmail(e)
       IN  IF ~check_rate_limit(e)
           THEN /\ Reply(p, "login", a, 429)
                /\ login_attempts' = record_login_attempt(e, FALSE)
           ELSE /\ SuspendAt(p, "login_verify", "login", a,
                             [NoLoc EXCEPT !.user = user], PreOf(a))
                /\ UNCHANGED login_attempts
    /\ UNCHANGED <<dbVars, idVars, histVars>>

\* POST /auth/login: check_rate_limit(email), then db.users.find_one
Login(p, email, password) ==
    /\ Arrives(p)
    /\ LET a == [NoArg EXCEPT !.email = email, !.password = password]
           e == Lower(email)
           user == FindUserByEmail(e)
       IN  IF ~check_rate_limit(e)
           THEN Reply(p, "login", a, 429)
           ELSE SuspendAt(p, "login_verify", "login", a,
                             [NoLoc EXCEPT !.user = user], PreOf(a))
    /\ UNCHANGED <<dbVars, login_attempts, idVars, histVars>>

\* a login that deletes the user's earlier records before it inserts the new one
LoginVerify_Rotating(p) ==
    /\ pc[p] = "login_verify"
    /\ LET email == Lower(arg[p].email)
           user == loc[p].user
       IN  IF user = NoUser \/ ~PwdVerify(arg[p].password, user.password)
           THEN /\ login_attempts' = record_login_attempt(email, FALSE)
                /\ Respond(p, 401, NoToken, NoToken)
                /\ UNCHANGED <<refresh_tokens, nextJti, issued, superseded>>
           ELSE LET access_token == create_access_token(user.id)
                    refresh_token == create_refresh_token(user.id)
                IN  /\ login_attempts' = record_login_attempt(email, TRUE)
                    /\ refresh_tokens' =
                          {r \in InsertToken(refresh_token, user.id) :
                              r.user_id = user.id => r.token = refresh_token}
                    /\ Respond(p, 200, access_token, refresh_token)
                    /\ issued' = IssuedWith("login", access_token, refresh_token)
                    /\ superseded' = superseded \cup
                          {t \in DOMAIN issued : t.type = "refresh" /\ t.sub = user.id}
                    /\ nextJti' = nextJti + 1
    /\ UNCHANGED <<users, categories, nextUid, refreshed, revoked>>

LoginVerify(p) ==
    /\ pc[p] = "login_verify"
    /\ LET email == Lower(arg[p].email)
           user == loc[p].user
       IN  IF user = NoUser \/ ~PwdVerify(arg[p].password, user.password)
           THEN /\ login_attempts' = record_login_attempt(email, FALSE)
                /\ Respond(p, 401, NoToken, NoToken)
                /\ UNCHANGED <<refresh_tokens, nextJti, issued, superseded>>
           ELSE LET access_token == create_access_token(user.id)
                    refresh_token == create_refresh_token(user.id)
                IN  /\ login_attempts' = record_login_attempt(email, TRUE)
                    /\ refresh_tokens' = InsertToken(refresh_token, user.id)
                    /\ Respond(p, 200, access_token, refresh_token)
                    /\ issued' = IssuedWith("login", access_token, refresh_token)
                    /\ superseded' = superseded \cup
                          {t \in DOMAIN issued : t.type = "refresh" /\ t.sub = user.id}
                    /\ nextJti' = nextJti + 1
    /\ UNCHANGED <<users, categories, nextUid, refreshed, revoked>>

(* ------------------------------- refresh ------------------------------- *)

\* tokens a client can present: any token it was sent, or a string that is none
TokenInputs == DOMAIN issued \cup {GarbageToken}
\* ... in the Authorization header, NoToken for a request without the header
BearerInputs == TokenInputs \cup {NoToken}
\* what the requests to an endpoint that ignores the header carry there
AnyBearer == {NoToken}

Refresh(p, token) ==
    /\ Arrives(p)
    /\ LET a == [NoArg EXCEPT !.token = token]
       IN  IF JwtDecode(token) # "ok" \/ token.type # "refresh"
           THEN Reply(p, "refresh", a, 401)
           ELSE IF ~FindStoredToken(token, token.sub)
           THEN Reply(p, "refresh", a, 401)
           ELSE SuspendAt(p, "ref_delete", "refresh", a,
                             [NoLoc EXCEPT !.uid = token.sub], PreOf(a))
    /\ UNCHANGED <<dbVars, login_attempts, idVars, histVars>>

RefreshDelete(p) ==
    /\ pc[p] = "ref_delete"
    /\ refresh_tokens' = DeleteOneToken(arg[p].token)
    /\ Suspend(p, "ref_user", loc[p])
    /\ UNCHANGED <<users, categories, login_attempts, idVars,
                   histVars>>

RefreshUser(p) ==
    /\ pc[p] = "ref_user"
    /\ LET user == FindUserById(loc[p].uid)
       IN  IF user = NoUser
           THEN Respond(p, 401, NoToken, NoToken)
           ELSE Suspend(p, "ref_insert", [loc[p] EXCEPT !.user = user])
    /\ UNCHANGED <<dbVars, login_attempts, idVars, histVars>>

\* a refresh that returns the new pair without storing the new refresh token
RefreshInsert_NoStore(p) ==
    /\ pc[p] = "ref_insert"
    /\ LET access_token == create_access_token(loc[p].uid)
           new_refresh_token == create_refresh_token(loc[p].uid)
       IN  /\ Respond(p, 200, access_token, new_refresh_token)
           /\ issued' = IssuedWith("refresh", access_token, new_refresh_token)
    /\ nextJti' = nextJti + 1
    /\ refreshed' = refreshed \cup {arg[p].token}
    /\ UNCHANGED <<dbVars, login_attempts, nextUid, revoked, superseded>>

RefreshInsert(p) ==
    /\ pc[p] = "ref_insert"
    /\ LET access_token == create_access_token(loc[p].uid)
           new_refresh_token == create_refresh_token(loc[p].uid)
       IN  /\ refresh_tokens' = InsertToken(new_refresh_token, loc[p].uid)
           /\ Respond(p, 200, access_token, new_refresh_token)
           /\ issued' = IssuedWith("refresh", access_token, new_refresh_token)
    /\ nextJti' = nextJti + 1
    /\ refreshed' = refreshed \cup {arg[p].token}
    /\ UNCHANGED <<users, categories, login_attempts, nextUid, revoked, superseded>>

(* -------------------------------- logout ------------------------------- *)

\* a logout that ends every session of the token's user
Logout_AllSessions(p, bearer, token) ==
    /\ Arrives(p)
    /\ refresh_tokens' = {r \in refresh_tokens :
                             r.token # token /\ r.user_id # token.sub}
    /\ Reply(p, "logout", [NoArg EXCEPT !.bearer = bearer, !.token = token], 200)
    /\ revoked' = revoked \cup {t \in {token} : t.type = "refresh"}
    /\ UNCHANGED <<users, categories, login_attempts, idVars,
                   issued, refreshed, superseded>>

\* the handler does not look at the Authorization header
Logout(p, bearer, token) ==
    /\ Arrives(p)
    /\ refresh_tokens' = DeleteOneToken(token)
    /\ Reply(p, "logout", [NoArg EXCEPT !.bearer = bearer, !.token = token], 200)
    /\ revoked' = revoked \cup {t \in {token} : t.type = "refresh"}
    /\ UNCHANGED <<users, categories, login_attempts, idVars,
                   issued, refreshed, superseded>>

(* ------------------------ authenticated endpoints ---------------------- *)

\* get_current_user without the check of the type claim
get_current_user_AnyType(token) ==
    IF token = NoToken THEN NoUser
    ELSE IF JwtDecode(token) # "ok" THEN NoUser
    ELSE FindUserById(token.sub)

\* get_current_user decoding without the check of exp
get_current_user_NoExpiry(token) ==
    IF token = NoToken THEN NoUser
    ELSE IF JwtDecode(token) = "invalid" THEN NoUser
    ELSE IF token.type # "access" THEN NoUser
    ELSE FindUserById(token.sub)

\* get_current_user: the user document, or NoUser when it raises 401.
\* NoToken stands for a request without an Authorization: Bearer header.
get_current_user(token) ==
    IF token = NoToken THEN NoUser
    ELSE IF JwtDecode(token) # "ok" THEN NoUser
    ELSE IF token.type # "access" THEN NoUser
    ELSE FindUserById(token.sub)

\* GET /auth/me
GetMe(p, bearer) ==
    /\ Arrives(p)
    /\ IF get_current_user(bearer) = NoUser
       THEN Reply(p, "me", [NoArg EXCEPT !.bearer = bearer], 401)
       ELSE Reply(p, "me", [NoArg EXCEPT !.bearer = bearer], 200)
    /\ UNCHANGED <<dbVars, login_attempts, idVars, histVars>>

\* PATCH /auth/settings
UpdateSettings(p, bearer, theme) ==
    /\ Arrives(p)
    /\ LET a == [NoArg EXCEPT !.bearer = bearer, !.theme = theme]
           current_user == get_current_user(bearer)
       IN  IF current_user = NoUser
           THEN Reply(p, "settings", a, 401)
           ELSE SuspendAt(p, IF theme # "none" THEN "set_update" ELSE "set_read",
                          "settings", a, [NoLoc EXCEPT !.uid = current_user.id],
                          PreOf(a))
    /\ UNCHANGED <<dbVars, login_attempts, idVars, histVars>>

\* db.users.update_one({"id": ...}, {"$set": update_data})
SettingsUpdate(p) ==
    /\ pc[p] = "set_update"
    /\ users' = {IF u.id = loc[p].uid THEN [u EXCEPT !.theme = arg[p].theme] ELSE u :
                   u \in users}
    /\ Suspend(p, "set_read", loc[p])
    /\ UNCHANGED <<categories, refresh_tokens, login_attempts, idVars,
                   histVars>>

SettingsRead(p) ==
    /\ pc[p] = "set_read"
    /\ Respond(p, 200, NoToken, NoToken)
    /\ UNCHANGED <<dbVars, login_attempts, idVars, histVars>>

\* GET /health
HealthCheck(p) ==
    /\ Arrives(p)
    /\ Reply(p, "health", NoArg, 200)
    /\ UNCHANGED <<dbVars, login_attempts, idVars, histVars>>

(* ------------------------------- ledger -------------------------------- *)

\* the name folded for the case-insensitive match of the "$regex" queries;
\* the names of the model hold no character that is special in a regex
FoldName(name) ==
    CASE name = "Viagem" -> "viagem"
      [] name = "VIAGEM" -> "viagem"
      [] name = "Salario" -> "salario"
      [] name = "SALARIO" -> "salario"
      [] OTHER -> name

\* a query that leaves out the filter on deleted_at
LiveOf_Deleted(user_id) == {t \in transactions : t.user_id = user_id}

\* the non-deleted transactions of a user ({"user_id": ..., "deleted_at": None})
LiveOf(user_id) == {t \in transactions : t.user_id = user_id /\ ~t.deleted}

WasOf(r) ==
    LET uid == IF r.bearer.type = "access" THEN r.bearer.sub ELSE 0
    IN  [user_id |-> uid,
         db |-> <<categories, transactions, goals>>,
         deleted |-> \E t \in transactions : t.id = r.id /\ t.deleted,
         live |-> \E t \in transactions : t.id = r.id /\ ~t.deleted,
         referenced |-> \E t \in LiveOf(uid) : t.category_id = r.id,
         reassign_own |-> \E c \in categories :
                             c.id = r.reassign_to /\ c.user_id = uid,
         foreign |-> \/ \E c \in categories : c.user_id # uid /\
                            c.id \in {r.id, r.category_id, r.reassign_to}
                     \/ \E t \in transactions : t.user_id # uid /\ t.id = r.id
                     \/ \E g \in goals : g.user_id # uid /\ g.id = r.id,
         duplicate |-> \E c \in categories :
                          /\ c.user_id = uid
                          /\ c.id # r.id
                          /\ FoldName(c.name) = FoldName(r.name)]

\* the handler of slot p suspends at label serving op name of request r
HoldAt(p, label, name, r, f, w) ==
    /\ pc' = [pc EXCEPT ![p] = label]
    /\ op' = [op EXCEPT ![p] = name]
    /\ req' = [req EXCEPT ![p] = r]
    /\ frame' = [frame EXCEPT ![p] = f]
    /\ was' = [was EXCEPT ![p] = w]
    /\ out' = NoOut

\* a suspended ledger handler moves on to label with locals f
Hold(p, label, f) == HoldAt(p, label, op[p], req[p], f, was[p])

\* the handler of slot p answers request r of op name; the slot is free again
Return(p, name, r, w, status, body) ==
    /\ pc' = [pc EXCEPT ![p] = "idle"]
    /\ op' = [op EXCEPT ![p] = "none"]
    /\ req' = [req EXCEPT ![p] = NoReq]
    /\ frame' = [frame EXCEPT ![p] = NoFrame]
    /\ was' = [was EXCEPT ![p] = NoWas]
    /\ out' = [op |-> name, req |-> r, status |-> status, body |-> body,
               was |-> w]

\* a suspended ledger handler answers
Finish(p, status, body) == Return(p, op[p], req[p], was[p], status, body)

\* a ledger handler answers in the step its request arrives in
Refuse(p, name, r, status) == Return(p, name, r, WasOf(r), status, NoBody)

\* the id of the authenticated user, 0 when get_current_user raises 401.  No
\* ledger handler writes db.users, so the dependency's lookup is taken in one
\* step with the handler's first storage call.
CurrentUserId(bearer) == get_current_user(bearer).id

\* an id made by uuid.uuid4()
FreshId == <<0, nextId>>

(* ------------------------------ categories ----------------------------- *)

\* db.categories.find_one({"id": id, "user_id": user_id})
FindCategory(id, user_id) ==
    IF \E c \in categories : c.id = id /\ c.user_id = user_id
    THEN CHOOSE c \in categories : c.id = id /\ c.user_id = user_id
    ELSE NoCategory

\* db.categories.find_one({"id": id})
FindCategoryById(id) ==
    IF \E c \in categories : c.id = id
    THEN CHOOSE c \in categories : c.id = id
    ELSE NoCategory

\* find_one({"user_id": ..., "name": {"$regex": "^name$", "$options": "i"},
\*           "id": {"$ne": except}}) finds a document
NameTaken(user_id, name, except) ==
    \E c \in categories :
        /\ c.user_id = user_id
        /\ FoldName(c.name) = FoldName(name)
        /\ c.id # except

\* GET /categories
ListCategories(p, bearer, type) ==
    /\ Arrives(p)
    /\ LET r == [NoReq EXCEPT !.bearer = bearer, !.type = type]
           uid == CurrentUserId(bearer)
       IN  IF uid = 0
           THEN Refuse(p, "list_categories", r, 401)
           ELSE Return(p, "list_categories", r, WasOf(r), 200,
                       [docs |-> {c \in categories :
                                    /\ c.user_id = uid
                                    /\ type # "none" => c.type \in {type, "BOTH"}}])
    /\ UNCHANGED <<ledgerDb, nextId, today, sessionVars>>

\* POST /categories
CreateCategory(p, bearer, name, type) ==
    /\ Arrives(p)
    /\ LET r == [NoReq EXCEPT !.bearer = bearer, !.name = name, !.type = type]
           uid == CurrentUserId(bearer)
       IN  IF uid = 0
           THEN Refuse(p, "create_category", r, 401)
           ELSE IF NameTaken(uid, name, NoId)
           THEN Refuse(p, "create_category", r, 400)
           ELSE HoldAt(p, "cat_insert", "create_category", r,
                       [NoFrame EXCEPT !.user_id = uid], WasOf(r))
    /\ UNCHANGED <<ledgerDb, nextId, today, sessionVars>>

\* db.categories.insert_one(cat_doc)
CategoryInsert(p) ==
    /\ pc[p] = "cat_insert"
    /\ LET cat_doc == [id |-> FreshId, user_id |-> frame[p].user_id,
                       name |-> req[p].name, type |-> req[p].type]
       IN  /\ categories' = categories \cup {cat_doc}
           /\ Finish(p, 201, [docs |-> {cat_doc}])
    /\ nextId' = nextId + 1
    /\ UNCHANGED <<transactions, goals, today, sessionVars>>

\* GET /categories/{category_id}
GetCategory(p, bearer, category_id) ==
    /\ Arrives(p)
    /\ LET r == [NoReq EXCEPT !.bearer = bearer, !.id = category_id]
           uid == CurrentUserId(bearer)
           category == FindCategory(category_id, uid)
       IN  IF uid = 0
           THEN Refuse(p, "get_category", r, 401)
           ELSE IF category = NoCategory
           THEN Refuse(p, "get_category", r, 404)
           ELSE Return(p, "get_category", r, WasOf(r), 200, [docs |-> {category}])
    /\ UNCHANGED <<ledgerDb, nextId, today, sessionVars>>

\* PATCH /categories/{category_id}; given names the fields of the update
UpdateCategory(p, bearer, category_id, given, name, type) ==
    /\ Arrives(p)
    /\ LET r == [NoReq EXCEPT !.bearer = bearer, !.id = category_id,
                              !.given = given, !.name = name, !.type = type]
           uid == CurrentUserId(bearer)
           category == FindCategory(category_id, uid)
       IN  IF uid = 0
           THEN Refuse(p, "update_category", r, 401)
           ELSE IF category = NoCategory
           THEN Refuse(p, "update_category", r, 404)
           ELSE HoldAt(p, IF "name" \in given THEN "cat_check"
                          ELSE IF given # {} THEN "cat_update" ELSE "cat_read",
                       "update_category", r,
                       [NoFrame EXCEPT !.user_id = uid, !.category = category],
                       WasOf(r))
    /\ UNCHANGED <<ledgerDb, nextId, today, sessionVars>>

\* the lookup of another category of the user with the new name
CategoryCheck(p) ==
    /\ pc[p] = "cat_check"
    /\ IF NameTaken(frame[p].user_id, req[p].name, req[p].id)
       THEN Finish(p, 400, NoBody)
       ELSE Hold(p, "cat_update", frame[p])
    /\ UNCHANGED <<ledgerDb, nextId, today, sessionVars>>

\* db.categories.update_one({"id": category_id}, {"$set": update_data})
CategoryUpdate(p) ==
    /\ pc[p] = "cat_update"
    /\ categories' =
          {IF c.id = req[p].id
           THEN [c EXCEPT !.name = IF "name" \in req[p].given
                                   THEN req[p].name ELSE c.name,
                          !.type = IF "type" \in req[p].given
                                   THEN req[p].type ELSE c.type]
           ELSE c : c \in categories}
    /\ Hold(p, "cat_read", frame[p])
    /\ UNCHANGED <<transactions, goals, nextId, today, sessionVars>>

\* updated = db.categories.find_one({"id": category_id}); updated.get(...)
\* raises AttributeError when the category is gone
CategoryRead(p) ==
    /\ pc[p] = "cat_read"
    /\ LET updated == FindCategoryById(req[p].id)
       IN  IF updated = NoCategory
           THEN Finish(p, 500, NoBody)
           ELSE Finish(p, 200, [docs |-> {updated}])
    /\ UNCHANGED <<ledgerDb, nextId, today, sessionVars>>

\* DELETE /categories/{category_id}?reassign_to=
DeleteCategory(p, bearer, category_id, reassign_to) ==
    /\ Arrives(p)
    /\ LET r == [NoReq EXCEPT !.bearer = bearer, !.id = category_id,
                              !.reassign_to = reassign_to]
           uid == CurrentUserId(bearer)
           category == FindCategory(category_id, uid)
       IN  IF uid = 0
           THEN Refuse(p, "delete_category", r, 401)
           ELSE IF category = NoCategory
           THEN Refuse(p, "delete_category", r, 404)
           ELSE HoldAt(p, "cat_count", "delete_category", r,
                       [NoFrame EXCEPT !.user_id = uid, !.category = category],
                       WasOf(r))
    /\ UNCHANGED <<ledgerDb, nextId, today, sessionVars>>

\* tx_count = db.transactions.count_documents({category_id, user_id, deleted_at: None})
CategoryCount(p) ==
    /\ pc[p] = "cat_count"
    /\ LET tx_count == Cardinality({t \in LiveOf(frame[p].user_id) :
                                      t.category_id = req[p].id})
       IN  IF tx_count > 0
           THEN IF req[p].reassign_to = NoId
                THEN Finish(p, 400, NoBody)
                ELSE Hold(p, "cat_reassign", [frame[p] EXCEPT !.total = tx_count])
           ELSE Hold(p, "cat_delete", [frame[p] EXCEPT !.total = tx_count])
    /\ UNCHANGED <<ledgerDb, nextId, today, sessionVars>>

\* the lookup of the replacement without the filter on user_id
CategoryReassign_AnyOwner(p) ==
    /\ pc[p] = "cat_reassign"
    /\ IF FindCategoryById(req[p].reassign_to) = NoCategory
       THEN Finish(p, 400, NoBody)
       ELSE Hold(p, "cat_move", frame[p])
    /\ UNCHANGED <<ledgerDb, nextId, today, sessionVars>>

\* reassign_cat = db.categories.find_one({"id": reassign_to, "user_id": ...})
CategoryReassign(p) ==
    /\ pc[p] = "cat_reassign"
    /\ IF FindCategory(req[p].reassign_to, frame[p].user_id) = NoCategory
       THEN Finish(p, 400, NoBody)
       ELSE Hold(p, "cat_move", frame[p])
    /\ UNCHANGED <<ledgerDb, nextId, today, sessionVars>>

\* db.transactions.update_many({category_id, user_id}, {"$set": {category_id: reassign_to}})
CategoryMove(p) ==
    /\ pc[p] = "cat_move"
    /\ transactions' =
          {IF t.category_id = req[p].id /\ t.user_id = frame[p].user_id
           THEN [t EXCEPT !.category_id = req[p].reassign_to]
           ELSE t : t \in transactions}
    /\ Hold(p, "cat_delete", frame[p])
    /\ UNCHANGED <<categories, goals, nextId, today, sessionVars>>

\* db.categories.delete_one({"id": category_id})
CategoryDelete(p) ==
    /\ pc[p] = "cat_delete"
    /\ categories' = {c \in categories : c.id # req[p].id}
    /\ Finish(p, 200, NoBody)
    /\ UNCHANGED <<transactions, goals, nextId, today, sessionVars>>

(* ----------------------------- transactions ---------------------------- *)

\* the lookup of a transaction without the filter on user_id
FindTransaction_AnyOwner(id, user_id) ==
    IF \E t \in transactions : t.id = id /\ ~t.deleted
    THEN CHOOSE t \in transactions : t.id = id /\ ~t.deleted
    ELSE NoTransaction

\* db.transactions.find_one({"id": id, "user_id": user_id, "deleted_at": None})
FindTransaction(id, user_id) ==
    IF \E t \in LiveOf(user_id) : t.id = id
    THEN CHOOSE t \in LiveOf(user_id) : t.id = id
    ELSE NoTransaction

\* db.transactions.find_one({"id": id})
FindTransactionById(id) ==
    IF \E t \in transactions : t.id = id
    THEN CHOOSE t \in transactions : t.id = id
    ELSE NoTransaction

\* the transactions a query with a range of dates and the optional filters on
\* type and category_id finds
QueryTransactions(user_id, lo, hi, type, category_id) ==
    {t \in LiveOf(user_id) :
        /\ InRange(t.date, lo, hi)
        /\ type # "none" => t.type = type
        /\ category_id # NoId => t.category_id = category_id}

\* end_date + "T23:59:59" for an end_date that holds a date only
EndOfDay(date) == <<date[1], date[2], date[3], TailOf("T23:59:59")>>

\* datetime.now(BRAZIL_TZ).isoformat()
NowText == <<today[1], today[2], today[3], TailOf("T12:00:00.123456-03:00")>>

\* (datetime.now(BRAZIL_TZ) - timedelta(days=n)).isoformat()
DaysAgoText(n) ==
    LET day == DaysBefore(today, n)
    IN  <<day[1], day[2], day[3], TailOf("T12:00:00.123456-03:00")>>

\* GET /transactions: the first page, which holds every match
ListTransactions(p, bearer, start_date, end_date, type, category_id) ==
    /\ Arrives(p)
    /\ LET r == [NoReq EXCEPT !.bearer = bearer, !.start_date = start_date,
                              !.end_date = end_date, !.type = type,
                              !.category_id = category_id]
           uid == CurrentUserId(bearer)
           ranged == start_date # NoDate \/ end_date # NoDate
           lo == IF ranged
                 THEN (IF start_date # NoDate THEN start_date ELSE MinDate)
                 ELSE DaysAgoText(30)
           hi == IF ranged
                 THEN (IF end_date # NoDate THEN EndOfDay(end_date) ELSE MaxDate)
                 ELSE NowText
       IN  IF uid = 0
           THEN Refuse(p, "list_transactions", r, 401)
           ELSE HoldAt(p, "list_find", "list_transactions", r,
                       [NoFrame EXCEPT
                          !.user_id = uid, !.lo = lo, !.hi = hi,
                          !.total = Cardinality(
                              QueryTransactions(uid, lo, hi, type, category_id))],
                       WasOf(r))
    /\ UNCHANGED <<ledgerDb, nextId, today, sessionVars>>

\* db.transactions.find(query).sort(...).skip(skip).limit(page_size)
ListFind(p) ==
    /\ pc[p] = "list_find"
    /\ LET found == QueryTransactions(frame[p].user_id, frame[p].lo, frame[p].hi,
                                      req[p].type, req[p].category_id)
       IN  IF found = {}
           THEN Finish(p, 200, [docs |-> {}, total |-> frame[p].total])
           ELSE Hold(p, "list_cats", [frame[p] EXCEPT !.period = found])
    /\ UNCHANGED <<ledgerDb, nextId, today, sessionVars>>

\* db.categories.find({"id": {"$in": cat_ids}}) for the names
ListCategoryNames(p) ==
    /\ pc[p] = "list_cats"
    /\ Finish(p, 200, [docs |-> frame[p].period, total |-> frame[p].total])
    /\ UNCHANGED <<ledgerDb, nextId, today, sessionVars>>

\* POST /transactions
CreateTransaction(p, bearer, type, amount, date, category_id) ==
    /\ Arrives(p)
    /\ LET r == [NoReq EXCEPT !.bearer = bearer, !.type = type, !.amount = amount,
                              !.date = date, !.category_id = category_id]
           uid == CurrentUserId(bearer)
           category == FindCategory(category_id, uid)
       IN  IF uid = 0
           THEN Refuse(p, "create_transaction", r, 401)
           ELSE IF category = NoCategory
           THEN Refuse(p, "create_transaction", r, 400)
           ELSE IF category.type # "BOTH" /\ category.type # type
           THEN Refuse(p, "create_transaction", r, 400)
           ELSE HoldAt(p, "tx_insert", "create_transaction", r,
                       [NoFrame EXCEPT !.user_id = uid, !.category = category],
                       WasOf(r))
    /\ UNCHANGED <<ledgerDb, nextId, today, sessionVars>>

\* db.transactions.insert_one(tx_doc)
TransactionInsert(p) ==
    /\ pc[p] = "tx_insert"
    /\ LET tx_doc == [id |-> FreshId, user_id |-> frame[p].user_id,
                      type |-> req[p].type, amount |-> req[p].amount,
                      date |-> req[p].date, category_id |-> req[p].category_id,
                      deleted |-> FALSE]
       IN  /\ transactions' = transactions \cup {tx_doc}
           /\ Finish(p, 201, [docs |-> {tx_doc}])
    /\ nextId' = nextId + 1
    /\ UNCHANGED <<categories, goals, today, sessionVars>>

\* GET /transactions/{transaction_id}
GetTransaction(p, bearer, transaction_id) ==
    /\ Arrives(p)
    /\ LET r == [NoReq EXCEPT !.bearer = bearer, !.id = transaction_id]
           uid == CurrentUserId(bearer)
           transaction == FindTransaction(transaction_id, uid)
       IN  IF uid = 0
           THEN Refuse(p, "get_transaction", r, 401)
           ELSE IF transaction = NoTransaction
           THEN Refuse(p, "get_transaction", r, 404)
           ELSE HoldAt(p, "tx_get_cat", "get_transaction", r,
                       [NoFrame EXCEPT !.user_id = uid,
                                       !.transaction = transaction],
                       WasOf(r))
    /\ UNCHANGED <<ledgerDb, nextId, today, sessionVars>>

\* category = db.categories.find_one({"id": transaction["category_id"]})
TransactionGetCategory(p) ==
    /\ pc[p] = "tx_get_cat"
    /\ Finish(p, 200, [docs |-> {frame[p].transaction},
                       category |-> FindCategoryById(frame[p].transaction.category_id)])
    /\ UNCHANGED <<ledgerDb, nextId, today, sessionVars>>

\* PATCH /transactions/{transaction_id}; given names the fields of the update
UpdateTransaction(p, bearer, transaction_id, given, type, amount, date, category_id) ==
    /\ Arrives(p)
    /\ LET r == [NoReq EXCEPT !.bearer = bearer, !.id = transaction_id,
                              !.given = given, !.type = type, !.amount = amount,
                              !.date = date, !.category_id = category_id]
           uid == CurrentUserId(bearer)
           transaction == FindTransaction(transaction_id, uid)
       IN  IF uid = 0
           THEN Refuse(p, "update_transaction", r, 401)
           ELSE IF transaction = NoTransaction
           THEN Refuse(p, "update_transaction", r, 404)
           ELSE HoldAt(p, IF "category_id" \in given THEN "tx_check"
                          ELSE IF given # {} THEN "tx_update" ELSE "tx_read",
                       "update_transaction", r,
                       [NoFrame EXCEPT !.user_id = uid,
                                       !.transaction = transaction],
                       WasOf(r))
    /\ UNCHANGED <<ledgerDb, nextId, today, sessionVars>>

\* category = db.categories.find_one({"id": update_data["category_id"], "user_id": ...})
TransactionCheck(p) ==
    /\ pc[p] = "tx_check"
    /\ IF FindCategory(req[p].category_id, frame[p].user_id) = NoCategory
       THEN Finish(p, 400, NoBody)
       ELSE Hold(p, "tx_update", frame[p])
    /\ UNCHANGED <<ledgerDb, nextId, today, sessionVars>>

\* db.transactions.update_one({"id": transaction_id}, {"$set": update_data})
TransactionUpdate(p) ==
    /\ pc[p] = "tx_update"
    /\ transactions' =
          {IF t.id = req[p].id
           THEN [t EXCEPT
                   !.type = IF "type" \in req[p].given THEN req[p].type ELSE t.type,
                   !.amount = IF "amount" \in req[p].given
                              THEN req[p].amount ELSE t.amount,
                   !.date = IF "date" \in req[p].given THEN req[p].date ELSE t.date,
                   !.category_id = IF "category_id" \in req[p].given
                                   THEN req[p].category_id ELSE t.category_id]
           ELSE t : t \in transactions}
    /\ Hold(p, "tx_read", frame[p])
    /\ UNCHANGED <<categories, goals, nextId, today, sessionVars>>

\* updated = db.transactions.find_one({"id": transaction_id})
TransactionRead(p) ==
    /\ pc[p] = "tx_read"
    /\ Hold(p, "tx_read_cat",
            [frame[p] EXCEPT !.transaction = FindTransactionById(req[p].id)])
    /\ UNCHANGED <<ledgerDb, nextId, today, sessionVars>>

\* category = db.categories.find_one({"id": updated["category_id"]})
TransactionReadCategory(p) ==
    /\ pc[p] = "tx_read_cat"
    /\ Finish(p, 200, [docs |-> {frame[p].transaction},
                       category |-> FindCategoryById(frame[p].transaction.category_id)])
    /\ UNCHANGED <<ledgerDb, nextId, today, sessionVars>>

\* DELETE /transactions/{transaction_id}
DeleteTransaction(p, bearer, transaction_id) ==
    /\ Arrives(p)
    /\ LET r == [NoReq EXCEPT !.bearer = bearer, !.id = transaction_id]
           uid == CurrentUserId(bearer)
       IN  IF uid = 0
           THEN Refuse(p, "delete_transaction", r, 401)
           ELSE IF FindTransaction(transaction_id, uid) = NoTransaction
           THEN Refuse(p, "delete_transaction", r, 404)
           ELSE HoldAt(p, "tx_delete", "delete_transaction", r,
                       [NoFrame EXCEPT !.user_id = uid], WasOf(r))
    /\ UNCHANGED <<ledgerDb, nextId, today, sessionVars>>

\* db.transactions.update_one({"id": transaction_id}, {"$set": {"deleted_at": ...}})
TransactionDelete(p) ==
    /\ pc[p] = "tx_delete"
    /\ transactions' = {IF t.id = req[p].id THEN [t EXCEPT !.deleted = TRUE] ELSE t :
                          t \in transactions}
    /\ Finish(p, 200, NoBody)
    /\ UNCHANGED <<categories, goals, nextId, today, sessionVars>>

(* ------------------------------- reports ------------------------------- *)

\* Amounts are counted in cents, so that sums are exact; percentages are counted
\* in hundredths of a percent, the unit of round(x, 2).

RECURSIVE SumAmounts(_)
SumAmounts(txs) ==
    IF txs = {} THEN 0
    ELSE LET t == CHOOSE t \in txs : TRUE
         IN  t.amount + SumAmounts(txs \ {t})

\* sum(t["amount"] for t in txs if t["type"] == type)
SumByType(txs, type) == SumAmounts({t \in txs : t.type = type})

Abs(x) == IF x < 0 THEN 0 - x ELSE x

\* round(n / d * 100, 2) in hundredths of a percent, d > 0, ties to even
RoundedPercent(n, d) ==
    LET q == (n * 10000) \div d
        twice == 2 * ((n * 10000) % d)
    IN  IF twice > d \/ (twice = d /\ q % 2 = 1) THEN q + 1 ELSE q

\* a change of 0 where there is nothing to compare with
PercentChange_ZeroForNone(current, previous) ==
    IF previous > 0 THEN <<RoundedPercent(current - previous, previous)>> ELSE <<0>>

\* ((current - previous) / previous * 100) if previous > 0 else None, rounded;
\* <<>> stands for None
PercentChange(current, previous) ==
    IF previous > 0 THEN <<RoundedPercent(current - previous, previous)>> ELSE <<>>

\* the month before without the step to the year before
PreviousMonth_SameYear(month, year) ==
    IF month = 1 THEN <<12, year>> ELSE <<month - 1, year>>

\* the month before month of year, as <<month, year>>
PreviousMonth(month, year) ==
    IF month = 1 THEN <<12, year - 1>> ELSE <<month - 1, year>>

\* a query without the range on "date"
FindInRange_AllTime(user_id, lo, hi) == LiveOf(user_id)

\* the user's non-deleted transactions with start <= date <= end
FindInRange(user_id, lo, hi) == {t \in LiveOf(user_id) : InRange(t.date, lo, hi)}

\* the ids of the categories of the EXPENSE transactions of txs
ExpenseCategoryIds(txs) == {t.category_id : t \in {u \in txs : u.type = "EXPENSE"}}

\* GET /reports/monthly
GetMonthlyReport(p, bearer, month, year) ==
    /\ Arrives(p)
    /\ LET r == [NoReq EXCEPT !.bearer = bearer, !.month = month, !.year = year]
           uid == CurrentUserId(bearer)
       IN  IF uid = 0
           THEN Refuse(p, "monthly_report", r, 401)
           ELSE HoldAt(p, "mon_prev", "monthly_report", r,
                       [NoFrame EXCEPT
                          !.user_id = uid,
                          !.period = FindInRange(uid, MonthStart(year, month),
                                                 MonthEnd(year, month))],
                       WasOf(r))
    /\ UNCHANGED <<ledgerDb, nextId, today, sessionVars>>

RECURSIVE InOrder(_)
\* the documents of a find without a sort, in the order they were inserted:
\* ids are issued in increasing order
InOrder(txs) ==
    IF txs = {} THEN <<>>
    ELSE LET t == CHOOSE t \in txs : \A u \in txs : t.id[2] <= u.id[2]
         IN  <<t>> \o InOrder(txs \ {t})

RECURSIVE ExpenseByCategory(_, _)
\* expense_by_category[cat_id] = expense_by_category.get(cat_id, 0) + amount
\* over the EXPENSE transactions of ts; a dict keeps its keys in the order
\* they were first set
ExpenseByCategory(ts, acc) ==
    IF ts = <<>> THEN acc
    ELSE LET t == Head(ts)
         IN  ExpenseByCategory(Tail(ts),
                IF t.type # "EXPENSE" THEN acc
                ELSE IF \E k \in DOMAIN acc : acc[k].category_id = t.category_id
                THEN [k \in DOMAIN acc |->
                        IF acc[k].category_id = t.category_id
                        THEN [acc[k] EXCEPT !.amount = @ + t.amount]
                        ELSE acc[k]]
                ELSE Append(acc, [category_id |-> t.category_id,
                                  amount |-> t.amount]))

RECURSIVE SortedByAmount_LastFirst(_)
\* a descending sort that puts the later of two equal amounts first
SortedByAmount_LastFirst(s) ==
    IF s = <<>> THEN <<>>
    ELSE LET k == CHOOSE k \in DOMAIN s :
                     /\ \A j \in DOMAIN s : s[j].amount <= s[k].amount
                     /\ \A j \in (k + 1)..Len(s) : s[j].amount < s[k].amount
         IN  <<s[k]>> \o
             SortedByAmount_LastFirst(SubSeq(s, 1, k - 1) \o SubSeq(s, k + 1, Len(s)))

RECURSIVE SortedByAmount(_)
\* sorted(s, key=lambda x: x["amount"], reverse=True): descending, and entries
\* of equal amount keep the order they had in s
SortedByAmount(s) ==
    IF s = <<>> THEN <<>>
    ELSE LET k == CHOOSE k \in DOMAIN s :
                     /\ \A j \in DOMAIN s : s[j].amount <= s[k].amount
                     /\ \A j \in 1..(k - 1) : s[j].amount < s[k].amount
         IN  <<s[k]>> \o
             SortedByAmount(SubSeq(s, 1, k - 1) \o SubSeq(s, k + 1, Len(s)))

\* top_categories: an entry for each key of expense_by_category, named after
\* the category found in cats or "Desconhecida" (the color is taken the same
\* way, "#71717a" for a category that was not found), sorted, the first 5
TopCategories(transactions_, cats) ==
    LET expense_by_category == ExpenseByCategory(InOrder(transactions_), <<>>)
        entries ==
            [k \in DOMAIN expense_by_category |->
                LET id == expense_by_category[k].category_id
                IN  [category_id |-> id,
                     name |-> IF \E c \in cats : c.id = id
                              THEN (CHOOSE c \in cats : c.id = id).name
                              ELSE "Desconhecida",
                     amount |-> expense_by_category[k].amount]]
        sorted == SortedByAmount(entries)
    IN  SubSeq(sorted, 1, IF Len(sorted) < 5 THEN Len(sorted) ELSE 5)

RECURSIVE DailyData(_, _)
\* daily_data[date_str] with date_str = t["date"][:10]: the income and the
\* expense of each day, a transaction that is no INCOME counting as expense
DailyData(ts, acc) ==
    IF ts = <<>> THEN acc
    ELSE LET t == Head(ts)
             date_str == Day(t.date)
             with == IF \E k \in DOMAIN acc : acc[k].date = date_str THEN acc
                     ELSE Append(acc, [date |-> date_str, income |-> 0,
                                       expense |-> 0])
         IN  DailyData(Tail(ts),
                [k \in DOMAIN with |->
                    IF with[k].date # date_str THEN with[k]
                    ELSE IF t.type = "INCOME"
                    THEN [with[k] EXCEPT !.income = @ + t.amount]
                    ELSE [with[k] EXCEPT !.expense = @ + t.amount]])

RECURSIVE SortedByDate_Descending(_)
\* the days from the last to the first
SortedByDate_Descending(s) ==
    IF s = <<>> THEN <<>>
    ELSE LET k == CHOOSE k \in DOMAIN s :
                     \A j \in DOMAIN s :
                        DateLeq(<<s[j].date[1], s[j].date[2], s[j].date[3], 1>>,
                                <<s[k].date[1], s[k].date[2], s[k].date[3], 1>>)
         IN  <<s[k]>> \o
             SortedByDate_Descending(SubSeq(s, 1, k - 1) \o SubSeq(s, k + 1, Len(s)))

RECURSIVE SortedByDate(_)
\* sorted(daily_data.items()): ascending by the date string, the keys distinct
SortedByDate(s) ==
    IF s = <<>> THEN <<>>
    ELSE LET k == CHOOSE k \in DOMAIN s :
                     \A j \in DOMAIN s :
                        DateLeq(<<s[k].date[1], s[k].date[2], s[k].date[3], 1>>,
                                <<s[j].date[1], s[j].date[2], s[j].date[3], 1>>)
         IN  <<s[k]>> \o
             SortedByDate(SubSeq(s, 1, k - 1) \o SubSeq(s, k + 1, Len(s)))

\* daily_balance: date, income, expense and balance = income - expense of
\* each day of daily_data
DailyBalance(transactions_) ==
    LET daily_data == SortedByDate(DailyData(InOrder(transactions_), <<>>))
    IN  [k \in DOMAIN daily_data |->
            [date |-> daily_data[k].date,
             income |-> daily_data[k].income,
             expense |-> daily_data[k].expense,
             balance |-> daily_data[k].income - daily_data[k].expense]]

\* what the monthly report answers from the month's and the previous month's
\* transactions, with the documents it was computed from; cats are the
\* categories found for the names
MonthlyBody(r, transactions_, prev_transactions, cats) ==
    LET total_income == SumByType(transactions_, "INCOME")
        total_expense == SumByType(transactions_, "EXPENSE")
        prev_income == SumByType(prev_transactions, "INCOME")
        prev_expense == SumByType(prev_transactions, "EXPENSE")
    IN  [docs |-> transactions_ \cup prev_transactions,
         month_docs |-> transactions_,
         top_expense_categories |-> TopCategories(transactions_, cats),
         daily_balance |-> DailyBalance(transactions_),
         month |-> r.month, year |-> r.year,
         total_income |-> total_income, total_expense |-> total_expense,
         balance |-> total_income - total_expense,
         income_change |-> PercentChange(total_income, prev_income),
         expense_change |-> PercentChange(total_expense, prev_expense),
         prev_income |-> prev_income, prev_expense |-> prev_expense,
         prev_docs |-> prev_transactions]

\* prev_transactions = db.transactions.find(prev_query)
MonthlyPrevious(p) ==
    /\ pc[p] = "mon_prev"
    /\ LET prev == PreviousMonth(req[p].month, req[p].year)
           prev_transactions ==
               FindInRange(frame[p].user_id, MonthStart(prev[2], prev[1]),
                           MonthEnd(prev[2], prev[1]))
       IN  IF ExpenseCategoryIds(frame[p].period) = {}
           THEN Finish(p, 200, MonthlyBody(req[p], frame[p].period, prev_transactions, {}))
           ELSE Hold(p, "mon_cats", [frame[p] EXCEPT !.prev = prev_transactions])
    /\ UNCHANGED <<ledgerDb, nextId, today, sessionVars>>

\* cats = db.categories.find({"id": {"$in": cat_ids}})
MonthlyCategories(p) ==
    /\ pc[p] = "mon_cats"
    /\ LET cat_ids == ExpenseCategoryIds(frame[p].period)
           cats == {c \in categories : c.id \in cat_ids}
       IN  Finish(p, 200, MonthlyBody(req[p], frame[p].period, frame[p].prev, cats))
    /\ UNCHANGED <<ledgerDb, nextId, today, sessionVars>>

(* ------------------------------ dashboard ------------------------------ *)

\* datetime.fromisoformat(text), as <<day, seconds after midnight, aware, offset>>
ParseDate(date) ==
    [day |-> Day(date), seconds |-> TailSeconds[date[4]],
     aware |-> TailAware[date[4]], offset |-> TailOffset[date[4]]]

\* (end_dt - start_dt).days
DeltaDays(start_dt, end_dt) ==
    LET whole == IF DateLeq(<<start_dt.day[1], start_dt.day[2], start_dt.day[3], 1>>,
                            <<end_dt.day[1], end_dt.day[2], end_dt.day[3], 1>>)
                 THEN DaysBetween(start_dt.day, end_dt.day)
                 ELSE 0 - DaysBetween(end_dt.day, start_dt.day)
    IN  (whole * 24 * 3600 + (end_dt.seconds - end_dt.offset)
           - (start_dt.seconds - start_dt.offset)) \div (24 * 3600)

\* (start_dt - timedelta(seconds=1)).isoformat() for a start_dt at midnight
SecondBefore(date) ==
    LET day == PrevDay(Day(date))
    IN  <<day[1], day[2], day[3],
          IF TailAware[date[4]] THEN TailOf("T23:59:59-03:00")
          ELSE TailOf("T23:59:59")>>

\* (date - timedelta(days=n)).isoformat()
DaysBeforeText(date, n) ==
    LET day == DaysBefore(Day(date), n)
    IN  <<day[1], day[2], day[3], date[4]>>

\* the loop that never runs
WrapMonth_Never(m, y) == <<m, y>>

\* the <<month, year>> of the i-th month before the current one:
\* m = now.month - i; y = now.year; while m <= 0: m += 12; y -= 1
RECURSIVE WrapMonth(_, _)
WrapMonth(m, y) == IF m <= 0 THEN WrapMonth(m + 12, y - 1) ELSE <<m, y>>

\* monthly_comparison over all_transactions: for i in range(5, -1, -1)
MonthlyComparison(all_transactions) ==
    [k \in 1..6 |->
        LET my == WrapMonth(today[2] - (6 - k), today[1])
            within == {t \in all_transactions :
                         InRange(t.date, MonthStart(my[2], my[1]),
                                 MonthEnd(my[2], my[1]))}
        IN  [month |-> my[1], year |-> my[2],
             income |-> SumByType(within, "INCOME"),
             expense |-> SumByType(within, "EXPENSE")]]

\* find(...).sort("date", -1).limit(5)
RecentOf(user_id) ==
    {t \in LiveOf(user_id) :
        Cardinality({u \in LiveOf(user_id) :
                        DateLeq(t.date, u.date) /\ u.date # t.date}) < 5}

\* GET /reports/dashboard
GetDashboard(p, bearer, start_date, end_date) ==
    /\ Arrives(p)
    /\ LET r == [NoReq EXCEPT !.bearer = bearer, !.start_date = start_date,
                              !.end_date = end_date]
           uid == CurrentUserId(bearer)
       IN  IF uid = 0
           THEN Refuse(p, "dashboard", r, 401)
           ELSE HoldAt(p, "dash_period", "dashboard", r,
                       [NoFrame EXCEPT
                          !.user_id = uid,
                          !.lo = IF start_date = NoDate
                                 THEN MonthStart(today[1], today[2])
                                 ELSE start_date,
                          !.hi = IF end_date = NoDate
                                 THEN MonthEnd(today[1], today[2])
                                 ELSE end_date,
                          !.all = LiveOf(uid)],
                       WasOf(r))
    /\ UNCHANGED <<ledgerDb, nextId, today, sessionVars>>

\* period_transactions = db.transactions.find(period_query)
DashboardPeriod(p) ==
    /\ pc[p] = "dash_period"
    /\ Hold(p, "dash_prev",
            [frame[p] EXCEPT
               !.period = FindInRange(frame[p].user_id, frame[p].lo, frame[p].hi)])
    /\ UNCHANGED <<ledgerDb, nextId, today, sessionVars>>

\* the previous period of start_date..end_date as <<prev_start, prev_end>>:
\* period_days = (end_dt - start_dt).days + 1
\* prev_end = start_dt - timedelta(seconds=1)
\* prev_start = prev_end - timedelta(days=period_days)
PreviousPeriod(start_date, end_date) ==
    LET period_days == DeltaDays(ParseDate(start_date), ParseDate(end_date)) + 1
        prev_end == SecondBefore(start_date)
    IN  <<DaysBeforeText(prev_end, period_days), prev_end>>

\* prev_transactions = db.transactions.find(prev_query); the subtraction of
\* start_dt from end_dt raises TypeError when one has an offset and the other
\* has none
DashboardPrevious(p) ==
    /\ pc[p] = "dash_prev"
    /\ LET start_dt == ParseDate(frame[p].lo)
           end_dt == ParseDate(frame[p].hi)
           prev_start == PreviousPeriod(frame[p].lo, frame[p].hi)[1]
           prev_end == PreviousPeriod(frame[p].lo, frame[p].hi)[2]
       IN  IF start_dt.aware # end_dt.aware
           THEN Finish(p, 500, NoBody)
           ELSE Hold(p, IF ExpenseCategoryIds(frame[p].period) = {}
                        THEN "dash_recent" ELSE "dash_cats",
                     [frame[p] EXCEPT
                        !.prev = FindInRange(frame[p].user_id, prev_start, prev_end)])
    /\ UNCHANGED <<ledgerDb, nextId, today, sessionVars>>

\* cats = db.categories.find({"id": {"$in": cat_ids}})
DashboardCategories(p) ==
    /\ pc[p] = "dash_cats"
    /\ Hold(p, "dash_recent", frame[p])
    /\ UNCHANGED <<ledgerDb, nextId, today, sessionVars>>

\* the change relative to prev_balance itself, not to its absolute value
BalanceChange_SignedDivisor(current_period_balance, prev_balance) ==
    IF prev_balance > 0
    THEN RoundedPercent(current_period_balance - prev_balance, prev_balance)
    ELSE IF prev_balance < 0
    THEN 0 - RoundedPercent(current_period_balance - prev_balance, 0 - prev_balance)
    ELSE IF current_period_balance > 0 THEN 100 * 100 ELSE 0

\* the rule with 100 for a current balance that is zero, too
BalanceChange_NonNegative(current_period_balance, prev_balance) ==
    IF prev_balance # 0
    THEN RoundedPercent(current_period_balance - prev_balance, Abs(prev_balance))
    ELSE IF current_period_balance >= 0 THEN 100 * 100 ELSE 0

\* income_vs_expense_change, in hundredths of a percent
BalanceChange(current_period_balance, prev_balance) ==
    IF prev_balance # 0
    THEN RoundedPercent(current_period_balance - prev_balance, Abs(prev_balance))
    ELSE IF current_period_balance > 0 THEN 100 * 100 ELSE 0

\* what the dashboard answers
DashboardBody(f, recent) ==
    LET total_income == SumByType(f.period, "INCOME")
        total_expense == SumByType(f.period, "EXPENSE")
        prev_balance == SumByType(f.prev, "INCOME") - SumByType(f.prev, "EXPENSE")
        current_period_balance == total_income - total_expense
    IN  [docs |-> f.all \cup f.period \cup f.prev \cup recent,
         start_date |-> f.lo, end_date |-> f.hi,
         prev_start |-> PreviousPeriod(f.lo, f.hi)[1],
         prev_end |-> PreviousPeriod(f.lo, f.hi)[2],
         current_balance |-> SumByType(f.all, "INCOME") - SumByType(f.all, "EXPENSE"),
         total_income |-> total_income, total_expense |-> total_expense,
         prev_balance |-> prev_balance,
         current_period_balance |-> current_period_balance,
         income_vs_expense_change |->
             BalanceChange(current_period_balance, prev_balance),
         period_docs |-> f.period, prev_docs |-> f.prev,
         monthly_comparison |-> MonthlyComparison(f.all),
         recent_transactions |-> recent]

\* recent = db.transactions.find(...).sort("date", -1).limit(5)
DashboardRecent(p) ==
    /\ pc[p] = "dash_recent"
    /\ LET recent == RecentOf(frame[p].user_id)
       IN  IF recent = {}
           THEN Finish(p, 200, DashboardBody(frame[p], recent))
           ELSE Hold(p, "dash_rcats", [frame[p] EXCEPT !.recent = recent])
    /\ UNCHANGED <<ledgerDb, nextId, today, sessionVars>>

\* rcats = db.categories.find({"id": {"$in": recent_cat_ids}})
DashboardRecentCategories(p) ==
    /\ pc[p] = "dash_rcats"
    /\ Finish(p, 200, DashboardBody(frame[p], frame[p].recent))
    /\ UNCHANGED <<ledgerDb, nextId, today, sessionVars>>

(* -------------------------------- export ------------------------------- *)

\* strftime("%Y-%m-%d"): a string that holds the date only
DateOnly(day) == <<day[1], day[2], day[3], TailOf("")>>

\* GET /reports/export
ExportCsv(p, bearer, start_date, end_date, type, category_id) ==
    /\ Arrives(p)
    /\ LET r == [NoReq EXCEPT !.bearer = bearer, !.start_date = start_date,
                              !.end_date = end_date, !.type = type,
                              !.category_id = category_id]
           uid == CurrentUserId(bearer)
           lo == IF start_date = NoDate THEN DateOnly(DaysBefore(today, 30))
                 ELSE start_date
           hi == EndOfDay(IF end_date = NoDate THEN DateOnly(today) ELSE end_date)
           found == QueryTransactions(uid, lo, hi, type, category_id)
       IN  IF uid = 0
           THEN Refuse(p, "export", r, 401)
           ELSE IF found = {}
           THEN Return(p, "export", r, WasOf(r), 200, [docs |-> {}])
           ELSE HoldAt(p, "exp_cats", "export", r,
                       [NoFrame EXCEPT !.user_id = uid, !.lo = lo, !.hi = hi,
                                       !.period = found],
                       WasOf(r))
    /\ UNCHANGED <<ledgerDb, nextId, today, sessionVars>>

\* cats = db.categories.find({"id": {"$in": cat_ids}}) and the rows
ExportRows(p) ==
    /\ pc[p] = "exp_cats"
    /\ Finish(p, 200, [docs |-> frame[p].period])
    /\ UNCHANGED <<ledgerDb, nextId, today, sessionVars>>

(* -------------------------------- goals -------------------------------- *)

Min(a, b) == IF a < b THEN a ELSE b

\* progress without the limit of 100
GoalProgress_Unclamped(g) ==
    IF g.target_amount > 0
    THEN RoundedPercent(g.current_amount, g.target_amount)
    ELSE 0

\* round(min(progress, 100), 2) with progress = current_amount / target_amount
\* * 100 if target_amount > 0 else 0, in hundredths of a percent
GoalProgress(g) ==
    IF g.target_amount > 0
    THEN Min(RoundedPercent(g.current_amount, g.target_amount), 100 * 100)
    ELSE 0

\* the GoalResponse of each goal of gs: the stored fields and the progress
GoalBody(gs) == [docs |-> gs, progress |-> [g \in gs |-> GoalProgress(g)]]

\* db.goals.find_one({"id": id, "user_id": user_id})
FindGoal(id, user_id) ==
    IF \E g \in goals : g.id = id /\ g.user_id = user_id
    THEN CHOOSE g \in goals : g.id = id /\ g.user_id = user_id
    ELSE NoGoal

\* db.goals.find_one({"id": id})
FindGoalById(id) ==
    IF \E g \in goals : g.id = id
    THEN CHOOSE g \in goals : g.id = id
    ELSE NoGoal

\* GET /goals
ListGoals(p, bearer) ==
    /\ Arrives(p)
    /\ LET r == [NoReq EXCEPT !.bearer = bearer]
           uid == CurrentUserId(bearer)
       IN  IF uid = 0
           THEN Refuse(p, "list_goals", r, 401)
           ELSE Return(p, "list_goals", r, WasOf(r), 200,
                       GoalBody({g \in goals : g.user_id = uid}))
    /\ UNCHANGED <<ledgerDb, nextId, today, sessionVars>>

\* POST /goals
CreateGoal(p, bearer, target_amount, current_amount) ==
    /\ Arrives(p)
    /\ LET r == [NoReq EXCEPT !.bearer = bearer, !.target_amount = target_amount,
                              !.current_amount = current_amount]
           uid == CurrentUserId(bearer)
           goal_doc == [id |-> FreshId, user_id |-> uid,
                        target_amount |-> target_amount,
                        current_amount |-> current_amount]
       IN  IF uid = 0
           THEN /\ Refuse(p, "create_goal", r, 401)
                /\ UNCHANGED <<goals, nextId>>
           ELSE /\ goals' = goals \cup {goal_doc}
                /\ nextId' = nextId + 1
                /\ Return(p, "create_goal", r, WasOf(r), 201, GoalBody({goal_doc}))
    /\ UNCHANGED <<categories, transactions, today, sessionVars>>

\* GET /goals/{goal_id}
GetGoal(p, bearer, goal_id) ==
    /\ Arrives(p)
    /\ LET r == [NoReq EXCEPT !.bearer = bearer, !.id = goal_id]
           uid == CurrentUserId(bearer)
       IN  IF uid = 0
           THEN Refuse(p, "get_goal", r, 401)
           ELSE IF FindGoal(goal_id, uid) = NoGoal
           THEN Refuse(p, "get_goal", r, 404)
           ELSE Return(p, "get_goal", r, WasOf(r), 200,
                       GoalBody({FindGoal(goal_id, uid)}))
    /\ UNCHANGED <<ledgerDb, nextId, today, sessionVars>>

\* PATCH /goals/{goal_id}
UpdateGoal(p, bearer, goal_id, given, target_amount, current_amount) ==
    /\ Arrives(p)
    /\ LET r == [NoReq EXCEPT !.bearer = bearer, !.id = goal_id, !.given = given,
                              !.target_amount = target_amount,
                              !.current_amount = current_amount]
           uid == CurrentUserId(bearer)
       IN  IF uid = 0
           THEN Refuse(p, "update_goal", r, 401)
           ELSE IF FindGoal(goal_id, uid) = NoGoal
           THEN Refuse(p, "update_goal", r, 404)
           ELSE HoldAt(p, IF given = {} THEN "goal_read" ELSE "goal_update",
                       "update_goal", r, [NoFrame EXCEPT !.user_id = uid], WasOf(r))
    /\ UNCHANGED <<ledgerDb, nextId, today, sessionVars>>

\* db.goals.update_one({"id": goal_id}, {"$set": update_data})
GoalUpdate(p) ==
    /\ pc[p] = "goal_update"
    /\ goals' =
          {IF g.id = req[p].id
           THEN [g EXCEPT
                   !.target_amount = IF "target_amount" \in req[p].given
                                     THEN req[p].target_amount ELSE g.target_amount,
                   !.current_amount = IF "current_amount" \in req[p].given
                                      THEN req[p].current_amount
                                      ELSE g.current_amount]
           ELSE g : g \in goals}
    /\ Hold(p, "goal_read", frame[p])
    /\ UNCHANGED <<categories, transactions, nextId, today, sessionVars>>

\* updated = db.goals.find_one({"id": goal_id}); updated.get(...) raises when
\* the goal is gone
GoalRead(p) ==
    /\ pc[p] = "goal_read"
    /\ IF FindGoalById(req[p].id) = NoGoal
       THEN Finish(p, 500, NoBody)
       ELSE Finish(p, 200, GoalBody({FindGoalById(req[p].id)}))
    /\ UNCHANGED <<ledgerDb, nextId, today, sessionVars>>

\* DELETE /goals/{goal_id}
DeleteGoal(p, bearer, goal_id) ==
    /\ Arrives(p)
    /\ LET r == [NoReq EXCEPT !.bearer = bearer, !.id = goal_id]
           uid == CurrentUserId(bearer)
       IN  IF uid = 0
           THEN Refuse(p, "delete_goal", r, 401)
           ELSE IF FindGoal(goal_id, uid) = NoGoal
           THEN Refuse(p, "delete_goal", r, 404)
           ELSE HoldAt(p, "goal_delete", "delete_goal", r,
                       [NoFrame EXCEPT !.user_id = uid], WasOf(r))
    /\ UNCHANGED <<ledgerDb, nextId, today, sessionVars>>

\* db.goals.delete_one({"id": goal_id})
GoalDelete(p) ==
    /\ pc[p] = "goal_delete"
    /\ goals' = {g \in goals : g.id # req[p].id}
    /\ Finish(p, 200, NoBody)
    /\ UNCHANGED <<categories, transactions, nextId, today, sessionVars>>

(* -------------------------------- clock -------------------------------- *)

Advance(d) ==
    /\ advances < MaxAdvances
    /\ now' = now + d
    /\ advances' = advances + 1
    /\ sent' = NoSent
    /\ UNCHANGED <<dbVars, login_attempts, idVars, requests, procVars, histVars,
                   ledgerVars>>

(* ---------------------------- specification ---------------------------- *)

\* a request has arrived.  A run holds at most max requests that suspend or
\* change what is stored; requests answered at once that change nothing are free.
Arrival(max) ==
    /\ IF sent' # NoSent /\ UNCHANGED <<dbVars, login_attempts, histVars>>
       THEN requests' = requests
       ELSE requests < max /\ requests' = requests + 1
    /\ UNCHANGED <<now, advances, ledgerVars>>

\* a suspended handler resumes
Resume == UNCHANGED <<envVars, ledgerVars>>

\* the session lifecycle: every endpoint
Next ==
    \/ \E p \in Serial, e \in SessionEmails, w \in RegisterPasswords :
          Register(p, e, w) /\ Arrival(MaxRequests)
    \/ \E p \in Serial : RegisterInsertUser(p) /\ Resume
    \/ \E p \in Serial : RegisterCategories(p) /\ Resume
    \/ \E p \in Serial : RegisterToken(p) /\ Resume
    \/ \E p \in Serial, e \in SessionEmails, w \in LoginPasswords :
          Login(p, e, w) /\ Arrival(MaxRequests)
    \/ \E p \in Serial : LoginVerify(p) /\ Resume
    \/ \E p \in Serial, t \in TokenInputs : Refresh(p, t) /\ Arrival(MaxRequests)
    \/ \E p \in Serial : RefreshDelete(p) /\ Resume
    \/ \E p \in Serial : RefreshUser(p) /\ Resume
    \/ \E p \in Serial : RefreshInsert(p) /\ Resume
    \/ \E p \in Serial, b \in AnyBearer, t \in TokenInputs :
          Logout(p, b, t) /\ Arrival(MaxRequests)
    \/ \E p \in Serial, t \in BearerInputs : GetMe(p, t) /\ Arrival(MaxRequests)
    \/ \E p \in Serial, t \in BearerInputs, th \in ThemeInputs :
          UpdateSettings(p, t, th) /\ Arrival(MaxRequests)
    \/ \E p \in Serial : SettingsUpdate(p) /\ Resume
    \/ \E p \in Serial : SettingsRead(p) /\ Resume
    \/ \E p \in Serial : HealthCheck(p) /\ Arrival(MaxRequests)
    \/ \E d \in SessionSteps : Advance(d)

Spec == Init /\ [][Next]_vars

\* the login rate limiter: registration and logins, with the clock moving
\* around the window
NextRate ==
    \/ \E p \in Serial, e \in RateAccounts, w \in RegisterPasswords :
          Register(p, e, w) /\ Arrival(MaxRateRequests)
    \/ \E p \in Serial : RegisterInsertUser(p) /\ Resume
    \/ \E p \in Serial : RegisterCategories(p) /\ Resume
    \/ \E p \in Serial : RegisterToken(p) /\ Resume
    \/ \E p \in Serial, e \in RateEmails, w \in LoginPasswords :
          Login(p, e, w) /\ Arrival(MaxRateRequests)
    \/ \E p \in Serial : LoginVerify(p) /\ Resume
    \/ \E d \in RateSteps : Advance(d)

SpecRate == Init /\ [][NextRate]_vars

\* the login rate limiter under concurrent requests: two logins at a time
NextRateRace ==
    \/ \E p \in Procs, e \in RateEmails, w \in LoginPasswords :
          Login(p, e, w) /\ Arrival(MaxRateRequests)
    \/ \E p \in Procs : LoginVerify(p) /\ Resume
    \/ \E d \in RateSteps : Advance(d)

SpecRateRace == Init /\ [][NextRateRace]_vars

\* the refresh-token store under concurrent requests: the endpoints that read
\* or write db.refresh_tokens, two requests at a time
NextRace ==
    \/ \E p \in Procs, e \in SessionEmails, w \in RegisterPasswords :
          Register(p, e, w) /\ Arrival(MaxRequests)
    \/ \E p \in Procs : RegisterInsertUser(p) /\ Resume
    \/ \E p \in Procs : RegisterCategories(p) /\ Resume
    \/ \E p \in Procs : RegisterToken(p) /\ Resume
    \/ \E p \in Procs, e \in SessionEmails, w \in LoginPasswords :
          Login(p, e, w) /\ Arrival(MaxRequests)
    \/ \E p \in Procs : LoginVerify(p) /\ Resume
    \/ \E p \in Procs, t \in TokenInputs : Refresh(p, t) /\ Arrival(MaxRequests)
    \/ \E p \in Procs : RefreshDelete(p) /\ Resume
    \/ \E p \in Procs : RefreshUser(p) /\ Resume
    \/ \E p \in Procs : RefreshInsert(p) /\ Resume
    \/ \E p \in Procs, b \in AnyBearer, t \in TokenInputs :
          Logout(p, b, t) /\ Arrival(MaxRequests)
    \/ \E d \in SessionSteps : Advance(d)

SpecRace == Init /\ [][NextRace]_vars

(* ------------------------- ledger specifications ----------------------- *)

\* the access token POST /auth/register sends user_id at time 0
TokenOf(user_id) ==
    [type |-> "access", sub |-> user_id, exp |-> ACCESS_TOKEN_EXPIRE_MINUTES,
     jti |-> 0]

\* the refresh token POST /auth/register sends the n-th user at time 0
RefreshTokenOf(user_id) ==
    [type |-> "refresh", sub |-> user_id,
     exp |-> REFRESH_TOKEN_EXPIRE_DAYS * MinutesPerDay, jti |-> user_id]

\* the users of the ledger specifications
UserA == 1
UserB == 2
LedgerUsers == {UserA, UserB}
LedgerEmails == <<(<<"a">>), (<<"b">>)>>

\* the state after users A and B have registered: each owns the default
\* categories and holds the tokens of the registration
InitRegistered ==
    /\ users = {[id |-> u, email |-> LedgerEmails[u],
                 password |-> PwdHash("Secret1a"), theme |-> "dark"] :
                   u \in LedgerUsers}
    /\ categories =
          {[id |-> <<u, i>>, user_id |-> u, name |-> DEFAULT_CATEGORIES[i].name,
            type |-> DEFAULT_CATEGORIES[i].type] :
              u \in LedgerUsers, i \in DOMAIN DEFAULT_CATEGORIES}
    /\ refresh_tokens =
          {[token |-> RefreshTokenOf(u), user_id |-> u,
            expires_at |-> REFRESH_TOKEN_EXPIRE_DAYS * MinutesPerDay] :
              u \in LedgerUsers}
    /\ login_attempts = [e \in {} |-> <<0, 0>>]
    /\ now = 0
    /\ advances = 0
    /\ nextJti = 3
    /\ nextUid = 3
    /\ requests = 0
    /\ pc = [p \in Procs |-> "idle"]
    /\ op = [p \in Procs |-> "none"]
    /\ arg = [p \in Procs |-> NoArg]
    /\ loc = [p \in Procs |-> NoLoc]
    /\ sent = NoSent
    /\ pre = [p \in Procs |-> NoPre]
    /\ issued = [t \in {TokenOf(u) : u \in LedgerUsers} \cup
                       {RefreshTokenOf(u) : u \in LedgerUsers} |-> "register"]
    /\ refreshed = {}
    /\ revoked = {}
    /\ superseded = {}
    /\ req = [p \in Procs |-> NoReq]
    /\ frame = [p \in Procs |-> NoFrame]
    /\ was = [p \in Procs |-> NoWas]
    /\ out = NoOut

\* a ledger request arrives: one answered at once without a write is free,
\* any other is counted against the budget
LedgerArrival(max) ==
    IF out' # NoOut /\ UNCHANGED ledgerDb
    THEN requests' = requests
    ELSE requests < max /\ requests' = requests + 1

\* a suspended ledger handler resumes
LedgerResume == requests' = requests

\* ids of the default categories of A and B, by name
Alimentacao(u) == <<u, 1>>
Investimentos(u) == <<u, 8>>
Salario(u) == <<u, 9>>

\* the date strings of the ledger's transactions: this month, last month
Noon(y, m, d) == <<y, m, d, TailOf("T12:00:00-03:00")>>
LedgerDates == {Noon(2024, 6, 10), Noon(2024, 5, 20)}
LedgerAmounts == {1000}
LedgerTypes == {"INCOME", "EXPENSE"}
\* the ids the first transactions get
LedgerTransactionIds == {<<0, 1>>}
\* the bodies of PATCH /transactions/{id}
LedgerPatches ==
    {[given |-> {}, type |-> "none", category_id |-> NoId],
     [given |-> {"type"}, type |-> "INCOME", category_id |-> NoId],
     [given |-> {"category_id"}, type |-> "none", category_id |-> Salario(UserA)],
     [given |-> {"category_id"}, type |-> "none", category_id |-> <<0, 9>>]}

InitLedger ==
    /\ InitRegistered
    /\ transactions = {}
    /\ goals = {}
    /\ nextId = 1
    /\ today = <<2024, 6, 15>>

\* one user's ledger, a request at a time: the life of a transaction and
\* every endpoint that reads transactions
NextLedger ==
    \/ \E p \in Serial, ty \in LedgerTypes, a \in LedgerAmounts, d \in LedgerDates,
          c \in {Alimentacao(UserA), Salario(UserA)} :
          CreateTransaction(p, TokenOf(UserA), ty, a, d, c)
             /\ LedgerArrival(MaxLedgerRequests)
    \/ \E p \in Serial : TransactionInsert(p) /\ LedgerResume
    \/ \E p \in Serial, t \in LedgerTransactionIds, u \in LedgerPatches :
          UpdateTransaction(p, TokenOf(UserA), t, u.given, u.type, 0, NoDate,
                            u.category_id)
             /\ LedgerArrival(MaxLedgerRequests)
    \/ \E p \in Serial : TransactionCheck(p) /\ LedgerResume
    \/ \E p \in Serial : TransactionUpdate(p) /\ LedgerResume
    \/ \E p \in Serial : TransactionRead(p) /\ LedgerResume
    \/ \E p \in Serial : TransactionReadCategory(p) /\ LedgerResume
    \/ \E p \in Serial, t \in LedgerTransactionIds :
          DeleteTransaction(p, TokenOf(UserA), t) /\ LedgerArrival(MaxLedgerRequests)
    \/ \E p \in Serial : TransactionDelete(p) /\ LedgerResume
    \/ \E p \in Serial, t \in LedgerTransactionIds :
          GetTransaction(p, TokenOf(UserA), t) /\ LedgerArrival(MaxLedgerRequests)
    \/ \E p \in Serial : TransactionGetCategory(p) /\ LedgerResume
    \/ \E p \in Serial :
          ListTransactions(p, TokenOf(UserA), NoDate, NoDate, "none", NoId)
             /\ LedgerArrival(MaxLedgerRequests)
    \/ \E p \in Serial : ListFind(p) /\ LedgerResume
    \/ \E p \in Serial : ListCategoryNames(p) /\ LedgerResume
    \/ \E p \in Serial :
          GetMonthlyReport(p, TokenOf(UserA), 6, 2024)
             /\ LedgerArrival(MaxLedgerRequests)
    \/ \E p \in Serial : MonthlyPrevious(p) /\ LedgerResume
    \/ \E p \in Serial : MonthlyCategories(p) /\ LedgerResume
    \/ \E p \in Serial :
          GetDashboard(p, TokenOf(UserA), NoDate, NoDate)
             /\ LedgerArrival(MaxLedgerRequests)
    \/ \E p \in Serial : DashboardPeriod(p) /\ LedgerResume
    \/ \E p \in Serial : DashboardPrevious(p) /\ LedgerResume
    \/ \E p \in Serial : DashboardCategories(p) /\ LedgerResume
    \/ \E p \in Serial : DashboardRecent(p) /\ LedgerResume
    \/ \E p \in Serial : DashboardRecentCategories(p) /\ LedgerResume
    \/ \E p \in Serial :
          ExportCsv(p, TokenOf(UserA), NoDate, NoDate, "none", NoId)
             /\ LedgerArrival(MaxLedgerRequests)
    \/ \E p \in Serial : ExportRows(p) /\ LedgerResume

SpecLedger == InitLedger /\ [][NextLedger]_vars

\* what users A and B own when the specification of ownership starts: each
\* has made one transaction in the category Alimentacao and one goal
OwnedTransaction(u) ==
    [id |-> <<0, u>>, user_id |-> u, type |-> "EXPENSE", amount |-> 1000 * u,
     date |-> Noon(2024, 6, 10), category_id |-> Alimentacao(u),
     deleted |-> FALSE]
OwnedGoal(u) ==
    [id |-> <<0, 2 + u>>, user_id |-> u, target_amount |-> 10000 * u,
     current_amount |-> 0]

InitOwners ==
    /\ InitRegistered
    /\ transactions = {OwnedTransaction(u) : u \in LedgerUsers}
    /\ goals = {OwnedGoal(u) : u \in LedgerUsers}
    /\ nextId = 5
    /\ today = <<2024, 6, 15>>

\* the ids user A sends: of A's and of B's category, transaction and goal
OwnerCategoryIds == {Alimentacao(UserA), Alimentacao(UserB)}
OwnerTransactionIds == {OwnedTransaction(u).id : u \in LedgerUsers}
OwnerGoalIds == {OwnedGoal(u).id : u \in LedgerUsers}
\* the reassign_to of DELETE /categories/{id}: none, B's category, a category of
\* A, the deleted category itself
OwnerReassignTargets ==
    {NoId, Alimentacao(UserB), Investimentos(UserA), Alimentacao(UserA)}
\* the bodies of PATCH /categories/{id}
OwnerCategoryPatches ==
    {[given |-> {"name"}, name |-> "Mercado", type |-> "none"],
     [given |-> {"type"}, name |-> "", type |-> "BOTH"],
     [given |-> {}, name |-> "", type |-> "none"]}
\* the bodies of PATCH /transactions/{id}
OwnerTransactionPatches ==
    {[given |-> {"amount"}, amount |-> 2500, category_id |-> NoId],
     [given |-> {"category_id"}, amount |-> 0, category_id |-> Alimentacao(UserB)],
     [given |-> {"category_id"}, amount |-> 0, category_id |-> Investimentos(UserA)]}
\* the bodies of PATCH /goals/{id}
OwnerGoalPatches ==
    {[given |-> {"current_amount"}, current_amount |-> 5000],
     [given |-> {}, current_amount |-> 0]}

\* every endpoint of categories, transactions, goals and reports, called by
\* user A with ids of A's and of B's entities, a request at a time
NextOwners ==
    \/ \E p \in Serial :
          ListCategories(p, TokenOf(UserA), "none") /\ LedgerArrival(MaxOwnerRequests)
    \/ \E p \in Serial :
          CreateCategory(p, TokenOf(UserA), "Viagem", "EXPENSE")
             /\ LedgerArrival(MaxOwnerRequests)
    \/ \E p \in Serial : CategoryInsert(p) /\ LedgerResume
    \/ \E p \in Serial, c \in OwnerCategoryIds :
          GetCategory(p, TokenOf(UserA), c) /\ LedgerArrival(MaxOwnerRequests)
    \/ \E p \in Serial, c \in OwnerCategoryIds, u \in OwnerCategoryPatches :
          UpdateCategory(p, TokenOf(UserA), c, u.given, u.name, u.type)
             /\ LedgerArrival(MaxOwnerRequests)
    \/ \E p \in Serial : CategoryCheck(p) /\ LedgerResume
    \/ \E p \in Serial : CategoryUpdate(p) /\ LedgerResume
    \/ \E p \in Serial : CategoryRead(p) /\ LedgerResume
    \/ \E p \in Serial, c \in OwnerCategoryIds, t \in OwnerReassignTargets :
          DeleteCategory(p, TokenOf(UserA), c, t) /\ LedgerArrival(MaxOwnerRequests)
    \/ \E p \in Serial : CategoryCount(p) /\ LedgerResume
    \/ \E p \in Serial : CategoryReassign(p) /\ LedgerResume
    \/ \E p \in Serial : CategoryMove(p) /\ LedgerResume
    \/ \E p \in Serial : CategoryDelete(p) /\ LedgerResume
    \/ \E p \in Serial, c \in OwnerCategoryIds :
          CreateTransaction(p, TokenOf(UserA), "EXPENSE", 300, Noon(2024, 6, 10), c)
             /\ LedgerArrival(MaxOwnerRequests)
    \/ \E p \in Serial : TransactionInsert(p) /\ LedgerResume
    \/ \E p \in Serial, t \in OwnerTransactionIds :
          GetTransaction(p, TokenOf(UserA), t) /\ LedgerArrival(MaxOwnerRequests)
    \/ \E p \in Serial : TransactionGetCategory(p) /\ LedgerResume
    \/ \E p \in Serial, t \in OwnerTransactionIds, u \in OwnerTransactionPatches :
          UpdateTransaction(p, TokenOf(UserA), t, u.given, "none", u.amount, NoDate,
                            u.category_id)
             /\ LedgerArrival(MaxOwnerRequests)
    \/ \E p \in Serial : TransactionCheck(p) /\ LedgerResume
    \/ \E p \in Serial : TransactionUpdate(p) /\ LedgerResume
    \/ \E p \in Serial : TransactionRead(p) /\ LedgerResume
    \/ \E p \in Serial : TransactionReadCategory(p) /\ LedgerResume
    \/ \E p \in Serial, t \in OwnerTransactionIds :
          DeleteTransaction(p, TokenOf(UserA), t) /\ LedgerArrival(MaxOwnerRequests)
    \/ \E p \in Serial : TransactionDelete(p) /\ LedgerResume
    \/ \E p \in Serial, c \in {NoId, Alimentacao(UserB)} :
          ListTransactions(p, TokenOf(UserA), NoDate, NoDate, "none", c)
             /\ LedgerArrival(MaxOwnerRequests)
    \/ \E p \in Serial : ListFind(p) /\ LedgerResume
    \/ \E p \in Serial : ListCategoryNames(p) /\ LedgerResume
    \/ \E p \in Serial : ListGoals(p, TokenOf(UserA)) /\ LedgerArrival(MaxOwnerRequests)
    \/ \E p \in Serial :
          CreateGoal(p, TokenOf(UserA), 7000, 0) /\ LedgerArrival(MaxOwnerRequests)
    \/ \E p \in Serial, g \in OwnerGoalIds :
          GetGoal(p, TokenOf(UserA), g) /\ LedgerArrival(MaxOwnerRequests)
    \/ \E p \in Serial, g \in OwnerGoalIds, u \in OwnerGoalPatches :
          UpdateGoal(p, TokenOf(UserA), g, u.given, 0, u.current_amount)
             /\ LedgerArrival(MaxOwnerRequests)
    \/ \E p \in Serial : GoalUpdate(p) /\ LedgerResume
    \/ \E p \in Serial : GoalRead(p) /\ LedgerResume
    \/ \E p \in Serial, g \in OwnerGoalIds :
          DeleteGoal(p, TokenOf(UserA), g) /\ LedgerArrival(MaxOwnerRequests)
    \/ \E p \in Serial : GoalDelete(p) /\ LedgerResume
    \/ \E p \in Serial :
          GetMonthlyReport(p, TokenOf(UserA), 6, 2024)
             /\ LedgerArrival(MaxOwnerRequests)
    \/ \E p \in Serial : MonthlyPrevious(p) /\ LedgerResume
    \/ \E p \in Serial : MonthlyCategories(p) /\ LedgerResume
    \/ \E p \in Serial :
          GetDashboard(p, TokenOf(UserA), NoDate, NoDate)
             /\ LedgerArrival(MaxOwnerRequests)
    \/ \E p \in Serial : DashboardPeriod(p) /\ LedgerResume
    \/ \E p \in Serial : DashboardPrevious(p) /\ LedgerResume
    \/ \E p \in Serial : DashboardCategories(p) /\ LedgerResume
    \/ \E p \in Serial : DashboardRecent(p) /\ LedgerResume
    \/ \E p \in Serial : DashboardRecentCategories(p) /\ LedgerResume
    \/ \E p \in Serial, c \in {NoId, Alimentacao(UserB)} :
          ExportCsv(p, TokenOf(UserA), NoDate, NoDate, "none", c)
             /\ LedgerArrival(MaxOwnerRequests)
    \/ \E p \in Serial : ExportRows(p) /\ LedgerResume

SpecOwners == InitOwners /\ [][NextOwners]_vars

\* the names user A gives categories: one name in two spellings
CategoryNames == {"Viagem", "VIAGEM"}
\* the replacement of DELETE /categories/{id}: none, another category of A
CategoryTargets == {NoId, Investimentos(UserA)}

\* user A's categories under concurrent requests: two requests at a time that
\* create, rename and delete categories and create and move transactions
NextCategories ==
    \/ \E p \in Procs, n \in CategoryNames :
          CreateCategory(p, TokenOf(UserA), n, "EXPENSE")
             /\ LedgerArrival(MaxCategoryRequests)
    \/ \E p \in Procs : CategoryInsert(p) /\ LedgerResume
    \/ \E p \in Procs, n \in CategoryNames :
          UpdateCategory(p, TokenOf(UserA), Investimentos(UserA), {"name"}, n, "none")
             /\ LedgerArrival(MaxCategoryRequests)
    \/ \E p \in Procs : CategoryCheck(p) /\ LedgerResume
    \/ \E p \in Procs : CategoryUpdate(p) /\ LedgerResume
    \/ \E p \in Procs : CategoryRead(p) /\ LedgerResume
    \/ \E p \in Procs, t \in CategoryTargets :
          DeleteCategory(p, TokenOf(UserA), Alimentacao(UserA), t)
             /\ LedgerArrival(MaxCategoryRequests)
    \/ \E p \in Procs : CategoryCount(p) /\ LedgerResume
    \/ \E p \in Procs : CategoryReassign(p) /\ LedgerResume
    \/ \E p \in Procs : CategoryMove(p) /\ LedgerResume
    \/ \E p \in Procs : CategoryDelete(p) /\ LedgerResume
    \/ \E p \in Procs :
          CreateTransaction(p, TokenOf(UserA), "EXPENSE", 300, Noon(2024, 6, 10),
                            Alimentacao(UserA))
             /\ LedgerArrival(MaxCategoryRequests)
    \/ \E p \in Procs : TransactionInsert(p) /\ LedgerResume
    \/ \E p \in Procs :
          UpdateTransaction(p, TokenOf(UserA), OwnedTransaction(UserA).id,
                            {"category_id"}, "none", 0, NoDate, Alimentacao(UserA))
             /\ LedgerArrival(MaxCategoryRequests)
    \/ \E p \in Procs : TransactionCheck(p) /\ LedgerResume
    \/ \E p \in Procs : TransactionUpdate(p) /\ LedgerResume
    \/ \E p \in Procs : TransactionRead(p) /\ LedgerResume
    \/ \E p \in Procs : TransactionReadCategory(p) /\ LedgerResume

SpecCategories == InitOwners /\ [][NextCategories]_vars

\* the transactions user A may have made when the specification of the
\* reports starts: in June 2024, in May 2024 up to the last second of the
\* month, in December 2023, on the first of June as written in UTC, and one
\* that was soft-deleted
ReportPool ==
    {[id |-> <<0, 11>>, user_id |-> UserA, type |-> "INCOME", amount |-> 5000,
      date |-> Noon(2024, 6, 10), category_id |-> Salario(UserA),
      deleted |-> FALSE],
     [id |-> <<0, 12>>, user_id |-> UserA, type |-> "EXPENSE", amount |-> 5000,
      date |-> Noon(2024, 6, 20), category_id |-> Alimentacao(UserA),
      deleted |-> FALSE],
     [id |-> <<0, 13>>, user_id |-> UserA, type |-> "INCOME", amount |-> 2000,
      date |-> Noon(2024, 5, 20), category_id |-> Salario(UserA),
      deleted |-> FALSE],
     [id |-> <<0, 14>>, user_id |-> UserA, type |-> "EXPENSE", amount |-> 2000,
      date |-> <<2024, 5, 31, TailOf("T23:59:59.500000-03:00")>>,
      category_id |-> Alimentacao(UserA), deleted |-> FALSE],
     [id |-> <<0, 15>>, user_id |-> UserA, type |-> "EXPENSE", amount |-> 700,
      date |-> Noon(2023, 12, 25), category_id |-> Alimentacao(UserA),
      deleted |-> FALSE],
     [id |-> <<0, 16>>, user_id |-> UserA, type |-> "INCOME", amount |-> 300,
      date |-> <<2024, 6, 1, TailOf("T00:00:00+00:00")>>,
      category_id |-> Salario(UserA), deleted |-> FALSE],
     [id |-> <<0, 17>>, user_id |-> UserA, type |-> "INCOME", amount |-> 900,
      date |-> Noon(2024, 6, 12), category_id |-> Salario(UserA),
      deleted |-> TRUE]}

\* the days the reports are asked for: the 15th of each month of 2024
ReportDays == {<<2024, m, 15>> : m \in 1..12}
\* the start_date and end_date of GET /reports/dashboard: none, or the first
\* and the last day of June 2024 as dates
ReportStarts == {NoDate, <<2024, 6, 1, TailOf("")>>}
ReportEnds == {NoDate, <<2024, 6, 30, TailOf("")>>}
\* the month and year of GET /reports/monthly
ReportMonths == 1..12
ReportYears == {2024}

InitReports ==
    /\ InitRegistered
    /\ \E made \in SUBSET ReportPool :
          /\ Cardinality(made) <= MaxReportTransactions
          /\ transactions = made \cup {OwnedTransaction(UserB)}
    /\ goals = {}
    /\ nextId = 20
    /\ today \in ReportDays

\* the reports of user A over what A has made, a request at a time
NextReports ==
    \/ \E p \in Serial, m \in ReportMonths, y \in ReportYears :
          GetMonthlyReport(p, TokenOf(UserA), m, y)
             /\ LedgerArrival(MaxReportRequests)
    \/ \E p \in Serial : MonthlyPrevious(p) /\ LedgerResume
    \/ \E p \in Serial : MonthlyCategories(p) /\ LedgerResume
    \/ \E p \in Serial, lo \in ReportStarts, hi \in ReportEnds :
          GetDashboard(p, TokenOf(UserA), lo, hi) /\ LedgerArrival(MaxReportRequests)
    \/ \E p \in Serial : DashboardPeriod(p) /\ LedgerResume
    \/ \E p \in Serial : DashboardPrevious(p) /\ LedgerResume
    \/ \E p \in Serial : DashboardCategories(p) /\ LedgerResume
    \/ \E p \in Serial : DashboardRecent(p) /\ LedgerResume
    \/ \E p \in Serial : DashboardRecentCategories(p) /\ LedgerResume

SpecReports == InitReports /\ [][NextReports]_vars

\* ids of more default categories of A and B
Transporte(u) == <<u, 2>>
Lazer(u) == <<u, 6>>

\* the transactions of user A that the specification of the month's report
\* starts from, all of June 2024: seven categories with expenses, amounts that
\* tie, two expenses of one category, days that hold several transactions, an
\* income, and an expense that was soft-deleted on a day of its own
MonthPool ==
    {[id |-> <<0, 21>>, user_id |-> UserA, type |-> "EXPENSE", amount |-> 1000,
      date |-> Noon(2024, 6, 10), category_id |-> Alimentacao(UserA),
      deleted |-> FALSE],
     [id |-> <<0, 22>>, user_id |-> UserA, type |-> "EXPENSE", amount |-> 1000,
      date |-> Noon(2024, 6, 10), category_id |-> Transporte(UserA),
      deleted |-> FALSE],
     [id |-> <<0, 23>>, user_id |-> UserA, type |-> "EXPENSE", amount |-> 2000,
      date |-> Noon(2024, 6, 5), category_id |-> <<UserA, 3>>,
      deleted |-> FALSE],
     [id |-> <<0, 24>>, user_id |-> UserA, type |-> "EXPENSE", amount |-> 500,
      date |-> Noon(2024, 6, 20), category_id |-> <<UserA, 4>>,
      deleted |-> FALSE],
     [id |-> <<0, 25>>, user_id |-> UserA, type |-> "EXPENSE", amount |-> 500,
      date |-> Noon(2024, 6, 5), category_id |-> <<UserA, 5>>,
      deleted |-> FALSE],
     [id |-> <<0, 26>>, user_id |-> UserA, type |-> "EXPENSE", amount |-> 1000,
      date |-> Noon(2024, 6, 1), category_id |-> Lazer(UserA),
      deleted |-> FALSE],
     [id |-> <<0, 27>>, user_id |-> UserA, type |-> "EXPENSE", amount |-> 500,
      date |-> Noon(2024, 6, 20), category_id |-> Alimentacao(UserA),
      deleted |-> FALSE],
     [id |-> <<0, 28>>, user_id |-> UserA, type |-> "EXPENSE", amount |-> 500,
      date |-> Noon(2024, 6, 10), category_id |-> <<UserA, 7>>,
      deleted |-> FALSE],
     [id |-> <<0, 29>>, user_id |-> UserA, type |-> "INCOME", amount |-> 4000,
      date |-> Noon(2024, 6, 10), category_id |-> Salario(UserA),
      deleted |-> FALSE],
     [id |-> <<0, 30>>, user_id |-> UserA, type |-> "EXPENSE", amount |-> 700,
      date |-> Noon(2024, 6, 15), category_id |-> Transporte(UserA),
      deleted |-> TRUE]}

\* the months of 2024 the report is asked for
MonthsAsked == {5, 6}
\* the replacement of DELETE /categories/{Lazer}: none, the category itself,
\* another category of A
MonthTargets == {NoId, Lazer(UserA), Transporte(UserA)}

InitMonth ==
    /\ InitRegistered
    /\ \E made \in SUBSET MonthPool :
          /\ Cardinality(made) <= MaxMonthTransactions
          /\ transactions = made
    /\ goals = {}
    /\ nextId = 40
    /\ today = <<2024, 6, 15>>

\* the month's report of user A, and the deletion of a category of A, a
\* request at a time
NextMonth ==
    \/ \E p \in Serial, m \in MonthsAsked :
          GetMonthlyReport(p, TokenOf(UserA), m, 2024)
             /\ LedgerArrival(MaxMonthRequests)
    \/ \E p \in Serial : MonthlyPrevious(p) /\ LedgerResume
    \/ \E p \in Serial : MonthlyCategories(p) /\ LedgerResume
    \/ \E p \in Serial, t \in MonthTargets :
          DeleteCategory(p, TokenOf(UserA), Lazer(UserA), t)
             /\ LedgerArrival(MaxMonthRequests)
    \/ \E p \in Serial : CategoryCount(p) /\ LedgerResume
    \/ \E p \in Serial : CategoryReassign(p) /\ LedgerResume
    \/ \E p \in Serial : CategoryMove(p) /\ LedgerResume
    \/ \E p \in Serial : CategoryDelete(p) /\ LedgerResume

SpecMonth == InitMonth /\ [][NextMonth]_vars

\* the amounts of the goals of the specification of goals, in cents after
\* round(., 2): a target_amount below half a cent is stored as 0
GoalTargets == {0, 10000}
GoalAmounts == {0, 3333, 15000}
GoalIds == {<<0, 1>>}
\* the bodies of PATCH /goals/{id}
GoalPatches ==
    {[given |-> {}, target_amount |-> 0, current_amount |-> 0]} \cup
    {[given |-> {"current_amount"}, target_amount |-> 0, current_amount |-> a] :
        a \in GoalAmounts} \cup
    {[given |-> {"target_amount"}, target_amount |-> 20000, current_amount |-> 0]}

\* the goals of user A, a request at a time
NextGoals ==
    \/ \E p \in Serial : ListGoals(p, TokenOf(UserA)) /\ LedgerArrival(MaxGoalRequests)
    \/ \E p \in Serial, t \in GoalTargets, a \in GoalAmounts :
          CreateGoal(p, TokenOf(UserA), t, a) /\ LedgerArrival(MaxGoalRequests)
    \/ \E p \in Serial, g \in GoalIds :
          GetGoal(p, TokenOf(UserA), g) /\ LedgerArrival(MaxGoalRequests)
    \/ \E p \in Serial, g \in GoalIds, u \in GoalPatches :
          UpdateGoal(p, TokenOf(UserA), g, u.given, u.target_amount, u.current_amount)
             /\ LedgerArrival(MaxGoalRequests)
    \/ \E p \in Serial : GoalUpdate(p) /\ LedgerResume
    \/ \E p \in Serial : GoalRead(p) /\ LedgerResume
    \/ \E p \in Serial, g \in GoalIds :
          DeleteGoal(p, TokenOf(UserA), g) /\ LedgerArrival(MaxGoalRequests)
    \/ \E p \in Serial : GoalDelete(p) /\ LedgerResume

SpecGoals == InitLedger /\ [][NextGoals]_vars

(* ------------------------------- claims -------------------------------- *)

\* C1: a refresh token is single-use.  A refresh request that arrives with a
\* token for which an earlier refresh was answered 200 is answered 401, and it
\* is answered at once: no such request gets as far as the delete.
C1_RefreshTokenSingleUse ==
    /\ (sent.op = "refresh" /\ sent.pre.refreshed) => sent.status = 401
    /\ \A p \in Procs : op[p] = "refresh" => ~pre[p].refreshed

\* a token that has not expired is refused because it was used before
C1_Witness ==
    /\ sent.op = "refresh"
    /\ sent.pre.refreshed
    /\ sent.status = 401
    /\ sent.arg.token.exp > now

\* C2: of two concurrent refresh requests with the same token at most one is
\* answered 200: no refresh is answered 200 for a token that a refresh has
\* been answered 200 for already.
C2_AtMostOneRefreshSucceeds ==
    (sent.op = "refresh" /\ sent.status = 200) => ~sent.repeat

\* C3: a login attempt is answered 429 exactly when, as it arrives, the e-mail's
\* failure count is at least 5 and its latest failure is less than 15 minutes
\* old, whatever password it carries.
C3_RateLimited ==
    /\ sent.op = "login" => (sent.status = 429 <=> sent.pre.limited)
    /\ \A p \in Procs : op[p] = "login" => ~pre[p].limited

\* an attempt with the account's password is refused
C3_Witness ==
    /\ sent.op = "login"
    /\ sent.status = 429
    /\ sent.pre.valid

\* C4: a successful login clears the e-mail's entry of the rate limiter, and a
\* failed login of an e-mail without an entry leaves the count at 1.
C4_SuccessResets ==
    /\ (sent.op = "login" /\ sent.status = 200)
          => Lower(sent.arg.email) \notin DOMAIN login_attempts
    /\ (sent.op = "login" /\ sent.status = 401 /\ sent.entry = NoEntry)
          => EntryOf(Lower(sent.arg.email)) = <<1, now>>

\* a successful login of an e-mail that had failures counted
C4_Witness ==
    /\ sent.op = "login"
    /\ sent.status = 200
    /\ sent.entry[1] >= 1
    /\ Lower(sent.arg.email) \notin DOMAIN login_attempts

\* C5: time does not reset the failure counter.  A failed login of an e-mail
\* that has an entry adds 1 to the stored count, however old the entry is, and
\* an e-mail whose count has so reached 5 is blocked on its next attempt.
C5_CounterNeverExpires ==
    (sent.op = "login" /\ sent.status = 401 /\ sent.entry # NoEntry)
       => /\ EntryOf(Lower(sent.arg.email)) = <<sent.entry[1] + 1, now>>
          /\ sent.entry[1] + 1 >= RATE_LIMIT_MAX_ATTEMPTS
                => ~check_rate_limit(Lower(sent.arg.email))

\* the fifth failure comes 20 minutes after the fourth and blocks the e-mail
C5_Witness ==
    /\ sent.op = "login"
    /\ sent.status = 401
    /\ sent.entry[1] = 4
    /\ now - sent.entry[2] = 20
    /\ EntryOf(Lower(sent.arg.email))[1] = 5
    /\ ~check_rate_limit(Lower(sent.arg.email))

\* a refresh token that is unexpired, was returned by an endpoint, and has been
\* neither used by a refresh nor handed to logout
Fresh(token) ==
    /\ token.type = "refresh"
    /\ Issued(token)
    /\ token \notin refreshed
    /\ token \notin revoked
    /\ token.exp > now

\* C6: logout never fails and is idempotent.  Every logout is answered 200, it
\* removes exactly the records holding its token (none when there is none) and
\* nothing else, a repeated logout of a token changes nothing, and a refresh
\* that arrives with a token a logout was called with is answered 401.
C6_LogoutIdempotent ==
    [][/\ sent'.op = "logout"
            => /\ sent'.status = 200
               /\ refresh_tokens' =
                     {r \in refresh_tokens : r.token # sent'.arg.token}
               /\ sent'.pre.revoked => refresh_tokens' = refresh_tokens
               /\ UNCHANGED <<users, categories, login_attempts>>
       /\ (sent'.op = "refresh" /\ sent'.pre.revoked) => sent'.status = 401
       /\ \A p \in Procs : op'[p] = "refresh" => ~pre'[p].revoked]_vars

\* an unexpired, unused token is refused because a logout was called with it
C6_Witness ==
    /\ sent.op = "refresh"
    /\ sent.pre.revoked
    /\ ~sent.pre.refreshed
    /\ sent.arg.token.exp > now
    /\ sent.status = 401

\* C7 as stated: a refresh token issued to a user before a later login of that
\* user is no longer accepted by refresh.
C7_LoginRotates ==
    (sent.op = "refresh" /\ sent.pre.superseded) => sent.status = 401

\* C7 as amended: login and register insert one new record and delete none, so
\* a refresh token issued before a later login of its user, if not yet used,
\* revoked or expired, is still accepted by refresh.
C7_LoginKeepsOldRecords ==
    [][/\ (sent'.op \in {"login", "register"} /\ sent'.status = 200)
            => /\ refresh_tokens \subseteq refresh_tokens'
               /\ refresh_tokens' \ refresh_tokens =
                     {[token |-> sent'.refresh, user_id |-> sent'.refresh.sub,
                       expires_at |-> sent'.refresh.exp]}
               /\ sent'.refresh \notin {r.token : r \in refresh_tokens}
       /\ (sent'.op = "refresh" /\ sent'.pre.superseded /\ sent'.pre.fresh)
            => sent'.status = 200]_vars

\* the token of an earlier session is accepted after a later login
C7_Witness ==
    /\ sent.op = "refresh"
    /\ sent.pre.superseded
    /\ sent.status = 200

\* C8: a token is accepted only for the purpose of its type.  A request to an
\* authenticated endpoint whose bearer is a refresh token is answered 401 at
\* once and changes nothing; a refresh with an access token is answered 401 at
\* once and leaves the refresh-token records as they are.
C8_TokenTypeEnforced ==
    [][/\ (sent'.op \in {"me", "settings"} /\ sent'.arg.bearer.type = "refresh")
            => sent'.status = 401 /\ UNCHANGED <<dbVars, login_attempts>>
       /\ (sent'.op = "refresh" /\ sent'.arg.token.type = "access")
            => sent'.status = 401 /\ UNCHANGED refresh_tokens
       /\ \A p \in Procs :
            /\ op'[p] \in {"me", "settings"} => arg'[p].bearer.type = "access"
            /\ op'[p] = "refresh" => arg'[p].token.type = "refresh"]_vars

\* an unexpired refresh token whose record is stored is refused as a bearer
C8_Witness ==
    /\ sent.op = "settings"
    /\ sent.arg.bearer.type = "refresh"
    /\ sent.arg.bearer.exp > now
    /\ \E r \in refresh_tokens : r.token = sent.arg.bearer
    /\ sent.status = 401

C10_FreshTokenAccepted ==
    (sent.op = "refresh" /\ sent.pre.fresh)
       => /\ sent.status = 200
          /\ sent.access.type = "access"
          /\ sent.access.sub = sent.arg.token.sub
          /\ sent.access.exp > now
          /\ sent.refresh # sent.arg.token
          /\ sent.refresh.sub = sent.arg.token.sub
          /\ Fresh(sent.refresh)
          /\ FindStoredToken(sent.refresh, sent.refresh.sub)

\* the token returned by a refresh is accepted by the next refresh
C10_Witness ==
    /\ sent.op = "refresh"
    /\ sent.pre.fresh
    /\ sent.pre.origin = "refresh"
    /\ sent.status = 200

\* the endpoints that return or aggregate transactions
ReadOps == {"list_transactions", "get_transaction", "monthly_report", "dashboard",
            "export"}

\* the ids of the transactions that were soft-deleted when the answered
\* request arrived
DeletedBefore == {t.id : t \in {d \in out.was.db[2] : d.deleted}}

\* C11: a soft-deleted transaction stays deleted in every step, no answer of
\* list_transactions, get_transaction, the monthly report, the dashboard or the
\* export to a request that arrived after the deletion holds or counts it, and
\* get, update and delete of it answer 404.
C11_SoftDeletedStaysExcluded ==
    /\ [](out.op \in ReadOps =>
             /\ \A t \in out.body.docs : t.id \notin DeletedBefore
             /\ out.op = "dashboard" /\ out.status = 200 =>
                   \A t \in out.body.recent_transactions \cup out.body.period_docs :
                       t.id \notin DeletedBefore)
    /\ [](/\ out.op \in {"get_transaction", "update_transaction",
                         "delete_transaction"}
          /\ out.was.deleted
          /\ out.status # 401
          => out.status = 404)
    /\ [][\A t \in transactions :
             t.deleted => \E d \in transactions' : d.id = t.id /\ d.deleted]_vars

\* the dashboard answers a user whose only transaction of the month was
\* soft-deleted before
C11_Witness ==
    /\ out.op = "dashboard"
    /\ out.status = 200
    /\ \E d \in out.was.db[2] :
          /\ d.deleted
          /\ d.user_id = out.was.user_id
          /\ InRange(d.date, out.body.start_date, out.body.end_date)

\* C12: in every reachable state the type of each non-deleted transaction is
\* the type of the category it references, or that category's type is BOTH.
C12_TypeCompatible ==
    \A t \in transactions :
        ~t.deleted =>
            \A c \in categories :
                c.id = t.category_id => c.type = "BOTH" \/ c.type = t.type

\* the answered request was addressed at a category the caller owned when it
\* arrived
OwnCategoryAddressed ==
    \E c \in out.was.db[1] : c.id = out.req.id /\ c.user_id = out.was.user_id

\* C13: delete_category of a category of the caller that non-deleted
\* transactions of the caller reference, sent without reassign_to or with a
\* reassign_to that is no category of the caller, is answered 400 and leaves
\* every category, transaction and goal as it was.
C13_DeleteNeedsOwnTarget ==
    (/\ out.op = "delete_category"
     /\ out.status # 401
     /\ OwnCategoryAddressed
     /\ out.was.referenced
     /\ out.req.reassign_to = NoId \/ ~out.was.reassign_own)
    => /\ out.status = 400
       /\ ledgerDb = out.was.db

\* A's delete_category of a category in use, with B's category as the target,
\* was refused
C13_Witness ==
    /\ out.op = "delete_category"
    /\ out.status = 400
    /\ OwnCategoryAddressed
    /\ out.was.referenced
    /\ out.req.reassign_to = Alimentacao(UserB)
    /\ ledgerDb = out.was.db

\* C14: after delete_category has answered 200 to a request with a
\* reassign_to, no non-deleted transaction references the deleted category
\* and every transaction references a category of its owner, also when
\* create_transaction and update_transaction requests run at the same time.
C14_ReassignLeavesNoReference ==
    (/\ out.op = "delete_category"
     /\ out.status = 200
     /\ out.req.reassign_to # NoId)
    => /\ \A t \in transactions : ~t.deleted => t.category_id # out.req.id
       /\ \A t \in transactions :
             \E c \in categories : c.id = t.category_id /\ c.user_id = t.user_id

\* C16: in every reachable state no user owns two categories whose names are
\* equal ignoring letter case.
C16_NamesUniquePerUser ==
    \A c \in categories : \A d \in categories :
        (c.user_id = d.user_id /\ FoldName(c.name) = FoldName(d.name)) => c = d

\* the categories, transactions and goals of a user
EntitiesOf(user_id) ==
    <<{c \in categories : c.user_id = user_id},
      {t \in transactions : t.user_id = user_id},
      {g \in goals : g.user_id = user_id}>>

\* the answered request named, in its path, a category, transaction or goal
\* that another user owned when the request arrived
ForeignPath ==
    \/ /\ out.op \in {"get_category", "update_category", "delete_category"}
       /\ \E c \in out.was.db[1] :
             c.id = out.req.id /\ c.user_id # out.was.user_id
    \/ /\ out.op \in {"get_transaction", "update_transaction", "delete_transaction"}
       /\ \E t \in out.was.db[2] :
             t.id = out.req.id /\ t.user_id # out.was.user_id
    \/ /\ out.op \in {"get_goal", "update_goal", "delete_goal"}
       /\ \E g \in out.was.db[3] :
             g.id = out.req.id /\ g.user_id # out.was.user_id

\* the answered request named another user's category as the category_id of a
\* transaction it creates or updates, or as the reassign_to of a deletion
ForeignReference ==
    \/ /\ out.op \in {"create_transaction", "update_transaction"}
       /\ \E c \in out.was.db[1] :
             c.id = out.req.category_id /\ c.user_id # out.was.user_id
    \/ /\ out.op = "delete_category"
       /\ \E c \in out.was.db[1] :
             c.id = out.req.reassign_to /\ c.user_id # out.was.user_id

\* C15 as stated: a request of user A that names an entity of user B is
\* answered 404.
C15_ForeignIsNotFound ==
    (out.status # 401 /\ (ForeignPath \/ ForeignReference)) => out.status = 404

\* C15, amended: no request of user A changes an entity of user B or is
\* answered with one, no transaction references a category of another user,
\* and no answer is 403; a request that names B's entity in its path is
\* answered 404, one that names B's category as the category_id of a
\* transaction is answered 400 (404 when the transaction itself is not A's),
\* and a delete_category that names it as reassign_to is answered 400 when
\* the category has transactions to move.
C15_OwnershipScoped ==
    /\ EntitiesOf(UserB) =
          <<{[id |-> <<UserB, i>>, user_id |-> UserB,
              name |-> DEFAULT_CATEGORIES[i].name,
              type |-> DEFAULT_CATEGORIES[i].type] : i \in DOMAIN DEFAULT_CATEGORIES},
            {OwnedTransaction(UserB)}, {OwnedGoal(UserB)}>>
    /\ \A d \in out.body.docs : d.user_id = out.was.user_id
    /\ \A t \in transactions : \A c \in categories :
          c.id = t.category_id => c.user_id = t.user_id
    /\ out.status # 403
    /\ (out.status # 401 /\ ForeignPath) => out.status = 404
    /\ (out.status # 401 /\ ForeignReference /\ ~ForeignPath) =>
          CASE out.op = "create_transaction" -> out.status = 400
            [] out.op = "update_transaction" ->
                 /\ out.status \in {400, 404}
                 /\ out.status = 400 <=> out.was.live
            [] out.op = "delete_category" ->
                 /\ out.status \in {200, 400, 404}
                 /\ (OwnCategoryAddressed /\ out.was.referenced) => out.status = 400

\* A's PATCH of B's transaction was answered 404
C15_Witness ==
    /\ out.op = "update_transaction"
    /\ out.was.user_id = UserA
    /\ out.req.id = OwnedTransaction(UserB).id
    /\ out.status = 404
    /\ OwnedTransaction(UserB) \in transactions

\* the caller's non-deleted transactions when the answered request arrived
LiveAtArrival ==
    {t \in out.was.db[2] : t.user_id = out.was.user_id /\ ~t.deleted}

\* the calendar day written in a date string, as a date string
DayText(date) == <<date[1], date[2], date[3], 1>>
\* the day written in date is one of the days from lo's to hi's
DayWithin(date, lo, hi) ==
    DateLeq(DayText(lo), DayText(date)) /\ DateLeq(DayText(date), DayText(hi))
\* ... and neither the first nor the last of them
DayInside(date, lo, hi) ==
    DayWithin(date, lo, hi) /\ DayText(date) \notin {DayText(lo), DayText(hi)}

\* C17: when the balance of the previous period is exactly zero, the
\* dashboard's income_vs_expense_change is 100 for a positive balance of the
\* current period and 0 for one that is zero or negative.
C17_PreviousZeroRule ==
    (out.op = "dashboard" /\ out.status = 200 /\ out.body.prev_balance = 0)
    => out.body.income_vs_expense_change =
          IF out.body.current_period_balance > 0 THEN 100 * 100 ELSE 0

\* the dashboard answered a user with income in the period and nothing in the
\* period before
C17_Witness ==
    /\ out.op = "dashboard"
    /\ out.status = 200
    /\ out.body.prev_balance = 0
    /\ out.body.current_period_balance > 0
    /\ out.body.income_vs_expense_change = 100 * 100

\* C18: the dashboard's current_balance is income minus expense over all of
\* the caller's non-deleted transactions, whatever start_date and end_date
\* are; total_income and total_expense are sums over transactions whose
\* written day is a day of the selected period, and every transaction written
\* on a day inside the period is counted.
C18_BalanceAllTimeTotalsInPeriod ==
    (out.op = "dashboard" /\ out.status = 200)
    => /\ out.body.current_balance =
             SumByType(LiveAtArrival, "INCOME") - SumByType(LiveAtArrival, "EXPENSE")
       /\ out.body.total_income = SumByType(out.body.period_docs, "INCOME")
       /\ out.body.total_expense = SumByType(out.body.period_docs, "EXPENSE")
       /\ \A t \in out.body.period_docs :
             /\ t \in LiveAtArrival
             /\ DayWithin(t.date, out.body.start_date, out.body.end_date)
       /\ \A t \in LiveAtArrival :
             DayInside(t.date, out.body.start_date, out.body.end_date)
                => t \in out.body.period_docs

\* the dashboard of a period answered a user who has a transaction in the
\* period and one outside of it
C18_Witness ==
    /\ out.op = "dashboard"
    /\ out.status = 200
    /\ out.req.start_date # NoDate
    /\ out.body.period_docs # {}
    /\ LiveAtArrival \ out.body.period_docs # {}
    /\ out.body.current_balance # out.body.total_income - out.body.total_expense

\* C19: the monthly report of month m of year y compares with month m - 1 of
\* year y, and with month 12 of year y - 1 when m is 1: the totals of the
\* comparison are sums over non-deleted transactions written in that month,
\* and every one written on a day inside that month is counted.
C19_ComparesPreviousMonth ==
    (out.op = "monthly_report" /\ out.status = 200)
    => LET m == out.req.month
           y == out.req.year
           pm == IF m > 1 THEN m - 1 ELSE 12
           py == IF m > 1 THEN y ELSE y - 1
       IN  /\ out.body.prev_income = SumByType(out.body.prev_docs, "INCOME")
           /\ out.body.prev_expense = SumByType(out.body.prev_docs, "EXPENSE")
           /\ \A t \in out.body.prev_docs :
                 t \in LiveAtArrival /\ t.date[1] = py /\ t.date[2] = pm
           /\ \A t \in LiveAtArrival :
                 (/\ t.date[1] = py
                  /\ t.date[2] = pm
                  /\ t.date[3] \notin {1, DaysInMonth(py, pm)})
                 => t \in out.body.prev_docs

\* the report of January was compared with a transaction of December of the
\* year before
C19_Witness ==
    /\ out.op = "monthly_report"
    /\ out.status = 200
    /\ out.req.month = 1
    /\ \E t \in out.body.prev_docs :
          t.date[1] = out.req.year - 1 /\ t.date[2] = 12

\* C20: monthly_comparison has 6 entries; the last is the current month, and
\* each entry is the calendar month before the next one, with the year one
\* less before a January.
C20_SixConsecutiveMonths ==
    (out.op = "dashboard" /\ out.status = 200)
    => LET mc == out.body.monthly_comparison
       IN  /\ Len(mc) = 6
           /\ mc[6].month = today[2] /\ mc[6].year = today[1]
           /\ \A k \in 1..6 : mc[k].month \in 1..12
           /\ \A k \in 1..5 :
                 IF mc[k + 1].month = 1
                 THEN mc[k].month = 12 /\ mc[k].year = mc[k + 1].year - 1
                 ELSE mc[k].month = mc[k + 1].month - 1 /\ mc[k].year = mc[k + 1].year

\* a dashboard of March, whose comparison starts in October of the year before
C20_Witness ==
    /\ out.op = "dashboard"
    /\ out.status = 200
    /\ today[2] = 3
    /\ out.body.monthly_comparison[1].month = 10
    /\ out.body.monthly_comparison[1].year = today[1] - 1

\* the endpoints that answer with goals
GoalOps == {"list_goals", "create_goal", "get_goal", "update_goal"}

\* C21: the progress of every goal that list_goals, create_goal, get_goal or
\* update_goal answers with is min(current_amount / target_amount * 100, 100)
\* of the goal as it is stored, 0 when target_amount is not above 0, and so
\* lies between 0 and 100.
C21_ProgressClamped ==
    (out.op \in GoalOps /\ out.status \in {200, 201})
    => \A g \in out.body.docs :
          /\ g \in goals
          /\ out.body.progress[g] >= 0
          /\ out.body.progress[g] <= 100 * 100
          /\ out.body.progress[g] =
                IF g.target_amount <= 0 THEN 0
                ELSE IF g.current_amount >= g.target_amount THEN 100 * 100
                ELSE RoundedPercent(g.current_amount, g.target_amount)

\* get_goal answered a goal whose current_amount is above its target_amount
C21_Witness ==
    /\ out.op = "get_goal"
    /\ out.status = 200
    /\ \E g \in out.body.docs :
          /\ g.current_amount > g.target_amount
          /\ g.target_amount > 0
          /\ out.body.progress[g] = 100 * 100

\* C22: in the monthly report income_change is (current - previous) / previous
\* * 100 (to two decimals) when the previous month's income is above 0 and is
\* absent when it is 0, whatever the month's income; the same for
\* expense_change.
C22_ChangeUndefinedOnZero ==
    (out.op = "monthly_report" /\ out.status = 200)
    => /\ out.body.prev_income >= 0
       /\ out.body.prev_expense >= 0
       /\ IF out.body.prev_income = 0
          THEN out.body.income_change = <<>>
          ELSE /\ Len(out.body.income_change) = 1
               /\ LET x == out.body.income_change[1] * out.body.prev_income
                       e == (out.body.total_income - out.body.prev_income) * 10000
                   IN  2 * Abs(x - e) <= out.body.prev_income
       /\ IF out.body.prev_expense = 0
          THEN out.body.expense_change = <<>>
          ELSE /\ Len(out.body.expense_change) = 1
               /\ LET x == out.body.expense_change[1] * out.body.prev_expense
                       e == (out.body.total_expense - out.body.prev_expense) * 10000
                   IN  2 * Abs(x - e) <= out.body.prev_expense

\* a report of a month with income after a month without any: no change
\* figure
C22_Witness ==
    /\ out.op = "monthly_report"
    /\ out.status = 200
    /\ out.body.total_income = 5000
    /\ out.body.prev_income = 0
    /\ out.body.income_change = <<>>

\* a report of 50.00 of income after 20.00: 150 percent
C22_WitnessDefined ==
    /\ out.op = "monthly_report"
    /\ out.status = 200
    /\ out.body.total_income = 5000
    /\ out.body.prev_income = 2000
    /\ out.body.income_change = <<150 * 100>>

\* the EXPENSE transactions the monthly report was computed from
MonthExpenses == {t \in out.body.month_docs : t.type = "EXPENSE"}
\* the sum of the month's expenses of a category
MonthAmount(id) == SumAmounts({t \in MonthExpenses : t.category_id = id})
\* the place of the first expense of a category among the month's documents
FirstSeen(id) ==
    CHOOSE n \in {t.id[2] : t \in {u \in MonthExpenses : u.category_id = id}} :
        \A t \in MonthExpenses : t.category_id = id => n <= t.id[2]
\* entry a of the list stands before entry b
RanksBefore(a, b) ==
    \/ MonthAmount(a) > MonthAmount(b)
    \/ MonthAmount(a) = MonthAmount(b) /\ FirstSeen(a) < FirstSeen(b)

\* C23: top_expense_categories of a monthly report holds each category with
\* EXPENSE transactions in the month at most once, with the sum of those
\* transactions as its amount; it is sorted by amount descending, categories
\* of equal amount in the order they were first met; it is cut to the first 5
\* of that order; a category id that no existing category has is listed under
\* the placeholder name instead of failing the report.
C23_TopExpenseCategories ==
    (out.op = "monthly_report" /\ out.status = 200)
    => LET top == out.body.top_expense_categories
           ids == {t.category_id : t \in MonthExpenses}
       IN  /\ Len(top) = IF Cardinality(ids) < 5 THEN Cardinality(ids) ELSE 5
           /\ \A k \in DOMAIN top :
                 /\ top[k].category_id \in ids
                 /\ top[k].amount = MonthAmount(top[k].category_id)
                 /\ top[k].name =
                       IF \E c \in categories : c.id = top[k].category_id
                       THEN (CHOOSE c \in categories : c.id = top[k].category_id).name
                       ELSE "Desconhecida"
           /\ \A j, k \in DOMAIN top :
                 j < k => RanksBefore(top[j].category_id, top[k].category_id)
           /\ \A id \in ids :
                 (\A k \in DOMAIN top : top[k].category_id # id)
                 => \A k \in DOMAIN top : RanksBefore(top[k].category_id, id)

\* a report of seven categories with expenses: two of equal amount follow each
\* other in the list, one of them deleted and named by the placeholder, and of
\* the three categories of the least amount only the first met is listed
C23_Witness ==
    /\ out.op = "monthly_report"
    /\ out.status = 200
    /\ Cardinality({t.category_id : t \in MonthExpenses}) = 7
    /\ Len(out.body.top_expense_categories) = 5
    /\ out.body.top_expense_categories[3].category_id = Transporte(UserA)
    /\ out.body.top_expense_categories[4].category_id = Lazer(UserA)
    /\ out.body.top_expense_categories[3].amount = 1000
    /\ out.body.top_expense_categories[4].amount = 1000
    /\ out.body.top_expense_categories[4].name = "Desconhecida"
    /\ out.body.top_expense_categories[5].category_id = <<UserA, 4>>

RECURSIVE SumIncome(_)
SumIncome(s) == IF s = <<>> THEN 0 ELSE Head(s).income + SumIncome(Tail(s))
RECURSIVE SumExpense(_)
SumExpense(s) == IF s = <<>> THEN 0 ELSE Head(s).expense + SumExpense(Tail(s))

\* C24: daily_balance of a monthly report holds exactly one entry for each
\* date on which the month has a non-deleted transaction, in ascending order
\* of date; the entry's income and expense are the sums of that date's INCOME
\* and EXPENSE transactions and its balance is income - expense; the incomes
\* of the entries add up to total_income and the expenses to total_expense.
C24_DailyBalance ==
    (out.op = "monthly_report" /\ out.status = 200)
    => LET daily == out.body.daily_balance
           month_docs == out.body.month_docs
           days == {Day(t.date) : t \in month_docs}
       IN  /\ \A t \in month_docs :
                 /\ ~t.deleted
                 /\ t.date[1] = out.req.year /\ t.date[2] = out.req.month
           /\ Len(daily) = Cardinality(days)
           /\ \A k \in DOMAIN daily :
                 LET on == {t \in month_docs : Day(t.date) = daily[k].date}
                 IN  /\ daily[k].date \in days
                     /\ daily[k].income = SumByType(on, "INCOME")
                     /\ daily[k].expense = SumByType(on, "EXPENSE")
                     /\ daily[k].balance = daily[k].income - daily[k].expense
           /\ \A j, k \in DOMAIN daily :
                 j < k => /\ daily[j].date # daily[k].date
                          /\ DateLeq(DayText(daily[j].date), DayText(daily[k].date))
           /\ SumIncome(daily) = out.body.total_income
           /\ SumExpense(daily) = out.body.total_expense

\* a report over three days, the second with an income and three expenses,
\* while a soft-deleted expense of another day of the month is stored
C24_Witness ==
    /\ out.op = "monthly_report"
    /\ out.status = 200
    /\ \E t \in transactions : t.deleted /\ Day(t.date) = <<2024, 6, 15>>
    /\ Len(out.body.daily_balance) = 3
    /\ out.body.daily_balance[1].date = <<2024, 6, 5>>
    /\ out.body.daily_balance[2] =
          [date |-> <<2024, 6, 10>>, income |-> 4000, expense |-> 2500,
           balance |-> 1500]
    /\ out.body.daily_balance[3].date = <<2024, 6, 20>>

\* the seconds from the instant of date string lo to that of hi, lo's day not
\* after hi's
SecondsFrom(lo, hi) ==
    DaysBetween(Day(lo), Day(hi)) * 24 * 3600
       + (TailSeconds[hi[4]] - TailOffset[hi[4]])
       - (TailSeconds[lo[4]] - TailOffset[lo[4]])

\* C25: for every period start..end the dashboard answers, the previous
\* period ends before start with no date of a transaction of the caller
\* between its end and start, and it is as long as the selected period:
\* prev_end - prev_start = end - start.
C25_PreviousPeriodAdjacentEqual ==
    (out.op = "dashboard" /\ out.status = 200)
    => LET start == out.body.start_date
           end == out.body.end_date
           prev_start == out.body.prev_start
           prev_end == out.body.prev_end
       IN  /\ DateLeq(prev_end, start) /\ prev_end # start
           /\ \A t \in LiveAtArrival :
                 ~(/\ DateLeq(prev_end, t.date) /\ t.date # prev_end
                   /\ DateLeq(t.date, start) /\ t.date # start)
           /\ SecondsFrom(prev_start, prev_end) = SecondsFrom(start, end)

\* C30: whenever the balance of the previous period is not zero, the
\* dashboard's income_vs_expense_change never has the sign opposite to the
\* change current_period_balance - prev_balance: it is >= 0 when the balance
\* rose and <= 0 when it fell, also for a negative previous balance.
C30_ChangeHasSignOfDifference ==
    (out.op = "dashboard" /\ out.status = 200 /\ out.body.prev_balance # 0)
    => /\ out.body.current_period_balance > out.body.prev_balance
             => out.body.income_vs_expense_change >= 0
       /\ out.body.current_period_balance < out.body.prev_balance
             => out.body.income_vs_expense_change <= 0

\* a dashboard after a period that closed below zero: the balance rose and
\* the change is positive
C30_Witness ==
    /\ out.op = "dashboard"
    /\ out.status = 200
    /\ out.body.prev_balance < 0
    /\ out.body.current_period_balance > out.body.prev_balance
    /\ out.body.income_vs_expense_change > 0

\* ... and one where the balance fell from a positive one: the change is
\* negative
C30_WitnessFell ==
    /\ out.op = "dashboard"
    /\ out.status = 200
    /\ out.body.prev_balance > 0
    /\ out.body.current_period_balance < out.body.prev_balance
    /\ out.body.income_vs_expense_change < 0

\* two addresses are the same but for the case of their letters
SameAddress(a, b) ==
    /\ Len(a) = Len(b)
    /\ \A i \in DOMAIN a :
          \/ a[i] = b[i]
          \/ {a[i], b[i]} \in {{"A", "a"}, {"B", "b"}}

\* C26: the rate limiter is keyed by the case-folded e-mail.  No two entries
\* belong to addresses that differ in case only, a failed login counts on the
\* entry of its address however the address was typed, and a step changes
\* the entry of an address only for a login of that address.
C26_KeyedByFoldedEmail ==
    /\ [](\A j, k \in DOMAIN login_attempts : SameAddress(j, k) => j = k)
    /\ []((sent.op = "login" /\ sent.status = 401)
            => \E k \in DOMAIN login_attempts :
                  /\ SameAddress(k, sent.arg.email)
                  /\ login_attempts[k] = <<sent.entry[1] + 1, now>>)
    /\ [][\A k \in DOMAIN login_attempts \cup DOMAIN login_attempts' :
            EntryOf(k)' # EntryOf(k)
               => \E p \in Procs : /\ pc[p] = "login_verify"
                                   /\ pc'[p] = "idle"
                                   /\ SameAddress(arg[p].email, k)]_vars

\* a failed login typed in upper case is the second failure counted on the
\* entry of the lower-case address, while another address keeps its own count
C26_Witness ==
    /\ sent.op = "login"
    /\ sent.status = 401
    /\ sent.arg.email = <<"A">>
    /\ DOMAIN login_attempts = {<<"a">>, <<"b">>}
    /\ login_attempts[<<"a">>][1] = 2
    /\ login_attempts[<<"b">>][1] = 1

\* C27: a login that is answered 429 leaves the rate limiter's entries as
\* they were, count and time of the latest failure; so an e-mail is allowed
\* again as soon as 15 minutes have passed since its latest counted failure,
\* however many attempts were refused in between.
C27_BlockedAttemptNotCounted ==
    /\ [][(sent'.op = "login" /\ sent'.status = 429)
            => login_attempts' = login_attempts]_vars
    /\ [](\A k \in DOMAIN login_attempts :
            now - login_attempts[k][2] >= RATE_LIMIT_WINDOW_MINUTES
               => check_rate_limit(k))
    /\ []((sent.op = "login" /\ sent.status = 429)
            => /\ sent.entry = EntryOf(Lower(sent.arg.email))
               /\ now - sent.entry[2] < RATE_LIMIT_WINDOW_MINUTES)

\* a login is refused 14 minutes after the fifth failure
C27_Witness ==
    /\ sent.op = "login"
    /\ sent.status = 429
    /\ EntryOf(Lower(sent.arg.email))[1] = RATE_LIMIT_MAX_ATTEMPTS
    /\ now - EntryOf(Lower(sent.arg.email))[2] = 14

\* C28: under concurrent logins of one e-mail no failure is counted while the
\* e-mail is blocked: no step raises a count that is 5 or more and whose
\* latest failure is less than 15 minutes old; and no increment is lost:
\* a failed login leaves the count one above what it was.
C28_NoCountWhileBlocked ==
    [][\A k \in DOMAIN login_attempts :
          (/\ login_attempts[k][1] >= RATE_LIMIT_MAX_ATTEMPTS
           /\ now - login_attempts[k][2] < RATE_LIMIT_WINDOW_MINUTES)
          => EntryOf(k)'[1] <= login_attempts[k][1]]_vars

\* C29: a refresh that is answered 401 leaves the stored refresh tokens as
\* they were: the step that answers it changes no record, and it is never
\* answered after the record of the presented token was deleted, so that a
\* refresh that deletes the record goes on to insert the replacement.
C29_FailedRefreshKeepsRecords ==
    /\ [][(sent'.op = "refresh" /\ sent'.status = 401)
            => /\ refresh_tokens' = refresh_tokens
               /\ \A p \in Procs :
                     pc[p] \in {"ref_delete", "ref_user", "ref_insert"}
                        => pc'[p] = pc[p]]_vars
    /\ [](\A p \in Procs :
            pc[p] \in {"ref_user", "ref_insert"}
               => \E u \in users : u.id = loc[p].uid)

\* a refresh with a token that was used before is answered 401 while the
\* record of its replacement stays stored
C29_Witness ==
    /\ sent.op = "refresh"
    /\ sent.status = 401
    /\ sent.arg.token.type = "refresh"
    /\ sent.pre.refreshed
    /\ \E r \in refresh_tokens : r.user_id = sent.arg.token.sub

====
